---------------------------- MODULE Spec2Model ----------------------------
(***************************************************************************)
(* A model of the High Leverage Humans landing page:                       *)
(*   - the service worker's request classification (determineStrategy),    *)
(*   - the service worker's fetch handling (cacheFirst, networkFirst,      *)
(*     staleWhileRevalidate, handleFetchError),                            *)
(*   - the service worker's activation (cleanupOldCaches, clients.claim),  *)
(*   - the page's FormController (validation, submission, reset).          *)
(* Strings the code inspects character by character (paths, field values)  *)
(* are sequences of one-character strings.                                 *)
(***************************************************************************)
EXTENDS Integers, Sequences, FiniteSets, TLC

VARIABLES
    \* ---- request classification (determineStrategy applied to inputs)
    sReq,        \* the request handed to determineStrategy
    sResult,     \* the strategy it returned, "none" before the call
    \* ---- CacheStorage, shared by fetch handling and activation
    cacheOrder,  \* the existing stores' names, in creation order (caches.keys())
    cacheData,   \* store name -> (url -> stored response)
    \* ---- fetch handling, one entry per intercepted fetch event
    req,         \* the event's request
    strat,       \* the strategy determineStrategy chose
    pc,          \* where the event's promise chain is suspended
    bg,          \* staleWhileRevalidate's fetchPromise: none/fetching/putting/done/failed
    net,         \* outcome of the event's network fetch: "none", "fail" or a status
    resp,        \* what respondWith settled with
    fetched,     \* whether the event issued a network fetch
    \* ---- activation
    swState,     \* installed / activating / activated
    actPc,       \* cleanupOldCaches: start / keys / deleting / done
    oldCaches,   \* names cleanupOldCaches still has to delete
    claimed,     \* clients.claim(): idle / pending / claimed
    initOrder,   \* the stores that existed when activation began (history)
    initData,    \* ... and their contents (history)
    \* ---- FormController
    value,       \* field -> element.value
    isValid,     \* field -> fieldConfig.isValid
    errorText,   \* field -> errorElement.textContent
    timer,       \* field -> a debounce timeout is pending
    focused,     \* the field holding focus, or NoField
    formIsValid, \* form -> formConfig.isValid
    loadingState,\* form -> formConfig.loadingState
    btnDisabled, \* form -> submitButton.disabled
    resetTimers, \* form -> number of pending resetForm timeouts
    isSubmitting,\* FormController.isSubmitting
    subs,        \* submission slot -> [form, pc] of a handleSubmit past its guard
    ev,          \* the last DOM event handled (history)
    \* ---- installation
    instPc,      \* the install listener's promise chain: idle / open / addAll /
                 \* skipWaiting / settled / done
    skipWaiting, \* self.skipWaiting() was called
    \* ---- the email-capture function (functions/index.js)
    leads,       \* the email_leads collection: documents in creation order,
                 \* a document's id is its position
    hReq,        \* request -> its body
    hPc,         \* request -> where its handler is suspended
    hSnap,       \* request -> the document its lookup returned (existingDoc)
    hOut,        \* request -> the outcome its handler is about to log and send
    hResp,       \* request -> the response sent
    hLog,        \* request -> the analytics writes attempted, in order
    \* ---- the rate limiter of the function
    rlConsumed,  \* client address -> points consumed in its current window
    rlLeft,      \* client address -> ms before its window ends, 0 without one
    rlPassed,    \* client address -> its requests of the window that reached
                 \* the route handler (history)
    rlResp,      \* what the middleware did with the last request
    \* ---- the page's application controller (HighLeverageApp)
    appPc,           \* where init() stands
    modules,         \* the names in this.modules
    appInstance,     \* module -> this.<module> holds an instance
    appOutcome,      \* module -> what its initialize<Module> met (history)
    isInitialized,   \* this.isInitialized
    appEvents,       \* the app:* events dispatched on document
    appListeners,    \* setupEventListeners has run
    swRegistration,  \* what initializeServiceWorker did
    \* ---- one call of validateField on a field of any configuration
    vfValidators,    \* fieldConfig.validators
    vfValue,         \* element.value
    vfIsValid,       \* fieldConfig.isValid
    vfMessage,       \* errorElement.textContent
    vfPc,            \* "idle", then "validated"
    \* ---- init() of one coordinator invoked more than once
    initPc,          \* call -> where that call of init() stands
    constructed,     \* module -> how many times its class was constructed
    registrations,   \* how many times serviceWorker.register was called
    \* ---- the debounced validation of the fields, with time
    dbValue,         \* field -> element.value
    dbTimer,         \* field -> ms before validationTimeout fires, -1 when not armed
    dbIsValid,       \* field -> fieldConfig.isValid
    dbSince,         \* field -> ms since its last input event, capped (history)
    dbRuns,          \* field -> debounced validations since its last input event
                     \* (history)
    \* ---- background sync, one flush per sync tag
    syncQueue,       \* tag -> the ids of the items stored locally
    syncPc,          \* tag -> where its sync function stands
    syncItems,       \* tag -> the list the flush got from the store
    syncIndex,       \* tag -> the position of the flush in that list
    syncAcked,       \* tag -> the ids whose POST got a 2xx response (history)
    syncTried,       \* tag -> the ids the current flush has posted (history)
    \* ---- performance monitor, the event queue
    eventQueue,      \* the events waiting to be sent, oldest first
    batchEvents,     \* sendEvents call -> the events it took from the queue
    sendState,       \* sendEvents call -> where the call stands
    acknowledged,    \* the events the endpoint answered with a 2xx (history)
    tracked,         \* how many events trackEvent has been given (history)
    sendCalls,       \* how many sendEvents calls have taken a batch
    \* ---- stale-while-revalidate, the order of its fetches
    swrIssued        \* the events whose revalidation fetch was issued, in issue order (history)

stratVars == <<sReq, sResult>>
cacheVars == <<cacheOrder, cacheData>>
fetchVars == <<req, strat, pc, bg, net, resp, fetched>>
actVars   == <<swState, actPc, oldCaches, claimed, initOrder, initData>>
formVars  == <<value, isValid, errorText, timer, focused, formIsValid,
               loadingState, btnDisabled, resetTimers, isSubmitting,
               subs, ev>>
instVars  == <<instPc, skipWaiting>>
\* the parts that the service worker's fetch and activation handling and the
\* forms leave alone
apiVars   == <<leads, hReq, hPc, hSnap, hOut, hResp, hLog>>
rateVars  == <<rlConsumed, rlLeft, rlPassed, rlResp>>
appVars   == <<appPc, modules, appInstance, appOutcome, isInitialized,
               appEvents, appListeners, swRegistration>>
valVars   == <<vfValidators, vfValue, vfIsValid, vfMessage, vfPc>>
reVars    == <<initPc, constructed, registrations>>
debVars   == <<dbValue, dbTimer, dbIsValid, dbSince, dbRuns>>
syncVars  == <<syncQueue, syncPc, syncItems, syncIndex, syncAcked, syncTried>>
perfVars  == <<eventQueue, batchEvents, sendState, acknowledged, tracked, sendCalls>>
swrVars   == <<swrIssued>>
moreVars  == <<valVars, reVars, debVars, syncVars, perfVars, swrVars>>
extVars   == <<instVars, apiVars, rateVars, appVars, moreVars>>
\* every group of variables of the other components
oldVars == <<stratVars, cacheVars, fetchVars, actVars, formVars, instVars,
             apiVars, rateVars, appVars>>
vars == <<stratVars, cacheVars, fetchVars, actVars, formVars, extVars>>

(***************************************************************************)
(* String helpers.                                                         *)
(***************************************************************************)
UpperAlpha == <<"A","B","C","D","E","F","G","H","I","J","K","L","M",
                "N","O","P","Q","R","S","T","U","V","W","X","Y","Z">>
LowerAlpha == <<"a","b","c","d","e","f","g","h","i","j","k","l","m",
                "n","o","p","q","r","s","t","u","v","w","x","y","z">>

ToLowerChar(c) ==
    IF \E i \in 1..Len(UpperAlpha) : UpperAlpha[i] = c
    THEN LowerAlpha[CHOOSE i \in 1..Len(UpperAlpha) : UpperAlpha[i] = c]
    ELSE c

\* String.prototype.toLowerCase
ToLowerCase(s) == [i \in 1..Len(s) |-> ToLowerChar(s[i])]

\* String.prototype.startsWith / endsWith
StartsWith(s, p) == Len(s) >= Len(p) /\ SubSeq(s, 1, Len(p)) = p
EndsWith(s, p) == Len(s) >= Len(p) /\ SubSeq(s, Len(s) - Len(p) + 1, Len(s)) = p

\* index of the last occurrence of character c in s, 0 when there is none
LastIndexOf(s, c) ==
    IF \E i \in 1..Len(s) : s[i] = c
    THEN CHOOSE i \in 1..Len(s) : s[i] = c /\ \A j \in (i+1)..Len(s) : s[j] # c
    ELSE 0

\* s.split('.').pop(): the text after the last '.', the whole of s when it has none
SplitDotPop(s) == SubSeq(s, LastIndexOf(s, ".") + 1, Len(s))

(***************************************************************************)
(* determineStrategy (service-worker.js).                                  *)
(***************************************************************************)
ImageExtensions == { <<"j","p","g">>, <<"j","p","e","g">>, <<"p","n","g">>,
                     <<"g","i","f">>, <<"w","e","b","p">>, <<"s","v","g">> }
FontExtensions  == { <<"w","o","f","f">>, <<"w","o","f","f","2">>,
                     <<"t","t","f">>, <<"e","o","t">> }
StaticExtensions == { <<"c","s","s">>, <<"j","s">> }
ApiPrefix  == <<"/","a","p","i","/">>
HtmlSuffix == <<".","h","t","m","l">>

\* RUNTIME_STRATEGIES
RUNTIME_STRATEGIES ==
    [images |-> "CacheFirst", fonts |-> "CacheFirst",
     api |-> "NetworkFirst", pages |-> "StaleWhileRevalidate"]

determineStrategy(pathname, mode) ==
    LET extension == ToLowerCase(SplitDotPop(pathname)) IN
    IF StartsWith(pathname, ApiPrefix) THEN RUNTIME_STRATEGIES.api
    ELSE IF extension \in ImageExtensions THEN RUNTIME_STRATEGIES.images
    ELSE IF extension \in FontExtensions THEN RUNTIME_STRATEGIES.fonts
    ELSE IF extension \in StaticExtensions THEN "CacheFirst"
    ELSE IF mode = "navigate" \/ EndsWith(pathname, HtmlSuffix) \/ extension = <<>>
         THEN RUNTIME_STRATEGIES.pages
    ELSE "NetworkFirst"


(***************************************************************************)
(* CacheStorage and responses.                                             *)
(***************************************************************************)
CACHE_NAME    == "high-leverage-humans-v1.0.0"
RUNTIME_CACHE == "runtime-cache-v1"
\* stores left behind by earlier releases
StaleNames == {"high-leverage-humans-v0.9.0", "high-leverage-humans-v0.8.0"}
StoreNames == {CACHE_NAME, RUNTIME_CACHE} \cup StaleNames

Root        == <<"/">>
MainCss     == <<"/","a","s","s","e","t","s","/","c","s","s","/",
                 "m","a","i","n",".","c","s","s">>
ApiData     == <<"/","a","p","i","/","d","a","t","a">>
OfflineHtml == <<"/","o","f","f","l","i","n","e",".","h","t","m","l">>
\* the urls of the fetch model; Root and MainCss are in STATIC_ASSETS
Urls == {Root, MainCss, ApiData, OfflineHtml}
StaticUrls == {Root, MainCss}

\* bound: fetch events per behaviour
MaxEvents == 2
Events == 1..MaxEvents

\* a response: where it came from, the fetch event whose network fetch produced
\* it (0: none of the model's events), its status and its url
NoResp      == [kind |-> "none", origin |-> 0, status |-> 0, url |-> <<>>]
\* an entry cache.addAll(STATIC_ASSETS) stored at install
Precached(u) == [kind |-> "precached", origin |-> 0, status |-> 200, url |-> u]
\* an entry the runtime store kept from an earlier page session
Stored(u)   == [kind |-> "stored", origin |-> 0, status |-> 200, url |-> u]
\* the response the network gave fetch event r
NetResponse(r, u, s) == [kind |-> "network", origin |-> r, status |-> s, url |-> u]
\* handleFetchError's synthesized response
Unavailable == [kind |-> "unavailable-json", origin |-> 0, status |-> 503, url |-> <<>>]
\* a respondWith promise that rejected
Rejected    == [kind |-> "rejected", origin |-> 0, status |-> 0, url |-> <<>>]

Statuses == {200, 404}
\* Response.ok
Ok(s) == s >= 200 /\ s <= 299

NetNone     == [outcome |-> "none", status |-> 0]
NetRejected == [outcome |-> "rejected", status |-> 0]
NetGot(s)   == [outcome |-> "response", status |-> s]
NetOutcomes == {NetRejected} \cup {NetGot(s) : s \in Statuses}

EmptyStore == [u \in Urls |-> NoResp]

NoReq == [url |-> <<>>, method |-> "none", mode |-> "none", range |-> FALSE]
Methods == {"GET", "POST"}
Modes == {"navigate", "cors"}
\* the requests drawn by the fetch model: every url, method and mode without a
\* range header, and one range request
Requests ==
    [url : Urls, method : Methods, mode : Modes, range : {FALSE}]
    \cup {[url |-> MainCss, method |-> "GET", mode |-> "cors", range |-> TRUE]}

\* Cache.match: only a GET request matches an entry
CacheMatch(store, request) ==
    IF request.method = "GET" THEN store[request.url] ELSE NoResp

\* caches.match: the first store, in creation order, with a matching entry
CachesMatch(order, data, request) ==
    LET hits == {i \in 1..Len(order) : CacheMatch(data[order[i]], request) # NoResp} IN
    IF hits = {} THEN NoResp
    ELSE CacheMatch(data[order[CHOOSE i \in hits : \A j \in hits : i <= j]], request)

\* caches.open: creates the store when it does not exist
CachesOpen(order, name) ==
    IF \E i \in 1..Len(order) : order[i] = name THEN order ELSE Append(order, name)

\* Cache.put rejects a request whose method is not GET (TypeError); for a GET
\* it can still reject (QuotaExceededError)
PutOutcomes(request) == IF request.method = "GET" THEN {TRUE, FALSE} ELSE {FALSE}

GetRequest(u) == [url |-> u, method |-> "GET", mode |-> "cors", range |-> FALSE]

(***************************************************************************)
(* Values the other parts hold while one part runs.                        *)
(***************************************************************************)
StratIdle ==
    /\ sReq = NoReq
    /\ sResult = "none"

FetchIdle ==
    /\ req = [r \in Events |-> NoReq]
    /\ strat = [r \in Events |-> "none"]
    /\ pc = [r \in Events |-> "idle"]
    /\ bg = [r \in Events |-> "none"]
    /\ net = [r \in Events |-> NetNone]
    /\ resp = [r \in Events |-> NoResp]
    /\ fetched = [r \in Events |-> FALSE]

ActIdle ==
    /\ swState = "activated"
    /\ actPc = "done"
    /\ oldCaches = {}
    /\ claimed = "claimed"
    /\ initOrder = <<>>
    /\ initData = [n \in StoreNames |-> EmptyStore]

\* the result false of sanitizeEmail, and the email of a body without one
NoEmail == <<>>

\* bound: requests per behaviour
MaxRequests == 2
HRequests == 1..MaxRequests

\* req.body before a request arrived
NoBody == [email |-> NoEmail, metadata |-> {}]

\* no document (an empty query snapshot)
NoDoc == [id |-> 0, email |-> NoEmail, subscriptionCount |-> 0, metadata |-> {}]
\* what the handler is about to log and answer
Outcome(status, event, isNew, leadId, count) ==
    [status |-> status, event |-> event, isNew |-> isNew, leadId |-> leadId,
     count |-> count]
NoOutcome == Outcome(0, "none", FALSE, 0, 0)

NoResponse == [status |-> 0, success |-> FALSE, isNew |-> FALSE, leadId |-> 0, count |-> 0]

ApiIdle ==
    /\ leads = <<>>
    /\ hReq = [r \in HRequests |-> NoBody]
    /\ hPc = [r \in HRequests |-> "idle"]
    /\ hSnap = [r \in HRequests |-> NoDoc]
    /\ hOut = [r \in HRequests |-> NoOutcome]
    /\ hResp = [r \in HRequests |-> NoResponse]
    /\ hLog = [r \in HRequests |-> <<>>]

\* the client addresses (req.ip) of the model
Clients == {"ip1", "ip2"}
NoRateResp == [client |-> "none", status |-> 0, retryAfter |-> 0]
RateIdle ==
    /\ rlConsumed = [c \in Clients |-> 0]
    /\ rlLeft = [c \in Clients |-> 0]
    /\ rlPassed = [c \in Clients |-> 0]
    /\ rlResp = NoRateResp

\* the modules the controller coordinates, in the order init() starts them
ModuleNames == {"performance", "animations", "forms"}
\* the controller as its constructor leaves it
AppIdle ==
    /\ appPc = "constructed"
    /\ modules = {}
    /\ appInstance = [m \in ModuleNames |-> FALSE]
    /\ appOutcome = [m \in ModuleNames |-> "none"]
    /\ isInitialized = FALSE
    /\ appEvents = {}
    /\ appListeners = FALSE
    /\ swRegistration = "none"

InstIdle ==
    /\ instPc = "done"
    /\ skipWaiting = TRUE

\* no validateField call under study
ValIdle ==
    /\ vfValidators = <<>>
    /\ vfValue = <<>>
    /\ vfIsValid = FALSE
    /\ vfMessage = ""
    /\ vfPc = "idle"

\* bound: calls of init() on one coordinator
MaxCalls == 2
Calls == 1..MaxCalls
\* no call of init() under study
ReIdle ==
    /\ initPc = [c \in Calls |-> "idle"]
    /\ constructed = [m \in ModuleNames |-> 0]
    /\ registrations = 0

\* the fields whose timing is followed
DebounceFields == {"email", "phone"}
\* no input event yet
DebounceIdle ==
    /\ dbValue = [f \in DebounceFields |-> <<>>]
    /\ dbTimer = [f \in DebounceFields |-> -1]
    /\ dbIsValid = [f \in DebounceFields |-> FALSE]
    /\ dbSince = [f \in DebounceFields |-> -1]
    /\ dbRuns = [f \in DebounceFields |-> 0]

\* the sync tags the worker listens for
SyncTags == {"form-submission", "analytics-data"}
\* no sync event yet, nothing stored
SyncIdle ==
    /\ syncQueue = [t \in SyncTags |-> {}]
    /\ syncPc = [t \in SyncTags |-> "idle"]
    /\ syncItems = [t \in SyncTags |-> <<>>]
    /\ syncIndex = [t \in SyncTags |-> 0]
    /\ syncAcked = [t \in SyncTags |-> {}]
    /\ syncTried = [t \in SyncTags |-> {}]

\* bound: sendEvents calls that take a batch
MaxSends == 3
SendCalls == 1..MaxSends
\* the monitor after its constructor: an empty queue, nothing sent
PerfIdle ==
    /\ eventQueue = <<>>
    /\ batchEvents = [c \in SendCalls |-> <<>>]
    /\ sendState = [c \in SendCalls |-> "none"]
    /\ acknowledged = {}
    /\ tracked = 0
    /\ sendCalls = 0

\* no revalidation fetch issued yet
SwrIdle == swrIssued = <<>>

MoreIdle ==
    /\ ValIdle
    /\ ReIdle
    /\ DebounceIdle
    /\ SyncIdle
    /\ PerfIdle
    /\ SwrIdle

ExtIdle ==
    /\ InstIdle
    /\ ApiIdle
    /\ RateIdle
    /\ AppIdle
    /\ MoreIdle

(***************************************************************************)
(* Fetch handling (service-worker.js, the fetch listener and the three     *)
(* strategies).  Every await is a step of its own, so the promise chains   *)
(* of concurrent fetch events interleave.                                  *)
(***************************************************************************)
\* executeStrategy: where the chosen strategy first suspends
ExecuteStrategy(strategy) ==
    CASE strategy = "CacheFirst" -> "cf_match"
      [] strategy = "NetworkFirst" -> "nf_fetch"
      [] strategy = "StaleWhileRevalidate" -> "swr_match"
      [] OTHER -> "plain_fetch"

\* the fetch listener: a range request is left to the browser; any other
\* request is classified and its strategy started
FetchEvent(r, q) ==
    /\ pc[r] = "idle"
    /\ IF r = 1 THEN TRUE ELSE pc[r - 1] # "idle"
    /\ req' = [req EXCEPT ![r] = q]
    /\ IF q.range
       THEN /\ pc' = [pc EXCEPT ![r] = "passthrough"]
            /\ UNCHANGED <<strat, fetched>>
       ELSE LET strategy == determineStrategy(q.url, q.mode) IN
            /\ strat' = [strat EXCEPT ![r] = strategy]
            /\ pc' = [pc EXCEPT ![r] = ExecuteStrategy(strategy)]
            /\ fetched' = [fetched EXCEPT ![r] = (strategy = "NetworkFirst")]
    /\ UNCHANGED <<bg, net, resp, cacheVars, stratVars, actVars, formVars, extVars>>

\* cacheFirst, after `await caches.match(request)`
CacheFirstMatch(r) ==
    /\ pc[r] = "cf_match"
    /\ LET cachedResponse == CachesMatch(cacheOrder, cacheData, req[r]) IN
       IF cachedResponse # NoResp
       THEN /\ resp' = [resp EXCEPT ![r] = cachedResponse]
            /\ pc' = [pc EXCEPT ![r] = "done"]
            /\ UNCHANGED fetched
       ELSE /\ pc' = [pc EXCEPT ![r] = "cf_fetch"]
            /\ fetched' = [fetched EXCEPT ![r] = TRUE]
            /\ UNCHANGED resp
    /\ UNCHANGED <<req, strat, bg, net, cacheVars, stratVars, actVars, formVars, extVars>>

\* cacheFirst, after `await fetch(request)`; a rejection leaves cacheFirst and
\* reaches the listener's catch
CacheFirstFetch(r, outcome) ==
    /\ pc[r] = "cf_fetch"
    /\ net' = [net EXCEPT ![r] = outcome]
    /\ IF outcome = NetRejected
       THEN /\ pc' = [pc EXCEPT ![r] = "err_own"]
            /\ UNCHANGED resp
       ELSE IF Ok(outcome.status)
       THEN /\ pc' = [pc EXCEPT ![r] = "cf_put"]
            /\ UNCHANGED resp
       ELSE /\ resp' = [resp EXCEPT ![r] = NetResponse(r, req[r].url, outcome.status)]
            /\ pc' = [pc EXCEPT ![r] = "done"]
    /\ UNCHANGED <<req, strat, bg, fetched, cacheVars, stratVars, actVars, formVars, extVars>>

\* cacheFirst, after `await caches.open` and `await cache.put`
CacheFirstPut(r, stored) ==
    /\ pc[r] = "cf_put"
    /\ stored \in PutOutcomes(req[r])
    /\ cacheOrder' = CachesOpen(cacheOrder, RUNTIME_CACHE)
    /\ IF stored
       THEN /\ cacheData' = [cacheData EXCEPT ![RUNTIME_CACHE][req[r].url] =
                                NetResponse(r, req[r].url, net[r].status)]
            /\ resp' = [resp EXCEPT ![r] = NetResponse(r, req[r].url, net[r].status)]
            /\ pc' = [pc EXCEPT ![r] = "done"]
       ELSE /\ pc' = [pc EXCEPT ![r] = "err_own"]
            /\ UNCHANGED <<cacheData, resp>>
    /\ UNCHANGED <<req, strat, bg, net, fetched, stratVars, actVars, formVars, extVars>>

\* networkFirst, after `await fetch(request)`; a rejection enters its catch
NetworkFirstFetch(r, outcome) ==
    /\ pc[r] = "nf_fetch"
    /\ net' = [net EXCEPT ![r] = outcome]
    /\ IF outcome = NetRejected
       THEN /\ pc' = [pc EXCEPT ![r] = "nf_match"]
            /\ UNCHANGED resp
       ELSE IF Ok(outcome.status)
       THEN /\ pc' = [pc EXCEPT ![r] = "nf_put"]
            /\ UNCHANGED resp
       ELSE /\ resp' = [resp EXCEPT ![r] = NetResponse(r, req[r].url, outcome.status)]
            /\ pc' = [pc EXCEPT ![r] = "done"]
    /\ UNCHANGED <<req, strat, bg, fetched, cacheVars, stratVars, actVars, formVars, extVars>>

\* networkFirst, after `await caches.open` and `await cache.put`, both inside
\* the try block: a rejected put enters the catch as a failed fetch does
NetworkFirstPut(r, stored) ==
    /\ pc[r] = "nf_put"
    /\ stored \in PutOutcomes(req[r])
    /\ cacheOrder' = CachesOpen(cacheOrder, RUNTIME_CACHE)
    /\ IF stored
       THEN /\ cacheData' = [cacheData EXCEPT ![RUNTIME_CACHE][req[r].url] =
                                NetResponse(r, req[r].url, net[r].status)]
            /\ resp' = [resp EXCEPT ![r] = NetResponse(r, req[r].url, net[r].status)]
            /\ pc' = [pc EXCEPT ![r] = "done"]
       ELSE /\ pc' = [pc EXCEPT ![r] = "nf_match"]
            /\ UNCHANGED <<cacheData, resp>>
    /\ UNCHANGED <<req, strat, bg, net, fetched, stratVars, actVars, formVars, extVars>>

\* a networkFirst catch that rethrows without looking in the caches
NetworkFirstMatchRethrows(r) ==
    /\ pc[r] = "nf_match"
    /\ pc' = [pc EXCEPT ![r] = "err_own"]
    /\ UNCHANGED <<req, strat, bg, net, resp, fetched, cacheVars, stratVars, actVars, formVars, extVars>>

\* networkFirst's catch, after `await caches.match(request)`; with no entry the
\* error is rethrown to the listener's catch
NetworkFirstMatch(r) ==
    /\ pc[r] = "nf_match"
    /\ LET cachedResponse == CachesMatch(cacheOrder, cacheData, req[r]) IN
       IF cachedResponse # NoResp
       THEN /\ resp' = [resp EXCEPT ![r] = cachedResponse]
            /\ pc' = [pc EXCEPT ![r] = "done"]
       ELSE /\ pc' = [pc EXCEPT ![r] = "err_own"]
            /\ UNCHANGED resp
    /\ UNCHANGED <<req, strat, bg, net, fetched, cacheVars, stratVars, actVars, formVars, extVars>>

\* what the actions that issue a revalidation fetch leave alone outside the
\* service worker
swrOthers == <<instVars, apiVars, rateVars, appVars, valVars, reVars, debVars,
               syncVars, perfVars>>

\* a staleWhileRevalidate that returns fetchPromise || cachedResponse
StaleWhileRevalidateMatchAwaitsFetch(r) ==
    /\ pc[r] = "swr_match"
    /\ cacheOrder' = CachesOpen(cacheOrder, RUNTIME_CACHE)
    /\ bg' = [bg EXCEPT ![r] = "fetching"]
    /\ fetched' = [fetched EXCEPT ![r] = TRUE]
    /\ pc' = [pc EXCEPT ![r] = "swr_wait"]
    /\ swrIssued' = Append(swrIssued, r)
    /\ UNCHANGED <<req, strat, net, resp, cacheData, stratVars, actVars, formVars, swrOthers>>

\* staleWhileRevalidate, after `await caches.open` and `await cache.match`: the
\* fetch is issued, and a cached entry settles respondWith at once
StaleWhileRevalidateMatch(r) ==
    /\ pc[r] = "swr_match"
    /\ cacheOrder' = CachesOpen(cacheOrder, RUNTIME_CACHE)
    /\ bg' = [bg EXCEPT ![r] = "fetching"]
    /\ fetched' = [fetched EXCEPT ![r] = TRUE]
    /\ LET cachedResponse == CacheMatch(cacheData[RUNTIME_CACHE], req[r]) IN
       IF cachedResponse # NoResp
       THEN /\ resp' = [resp EXCEPT ![r] = cachedResponse]
            /\ pc' = [pc EXCEPT ![r] = "done"]
       ELSE /\ pc' = [pc EXCEPT ![r] = "swr_wait"]
            /\ UNCHANGED resp
    /\ swrIssued' = Append(swrIssued, r)
    /\ UNCHANGED <<req, strat, net, cacheData, stratVars, actVars, formVars, swrOthers>>

\* staleWhileRevalidate's fetchPromise, when fetch settles: an ok response is
\* put without being awaited; the caller, if it waits on fetchPromise, gets
\* the response, or the rejection through the listener's catch
StaleWhileRevalidateFetch(r, outcome) ==
    /\ bg[r] = "fetching"
    /\ net' = [net EXCEPT ![r] = outcome]
    /\ bg' = [bg EXCEPT ![r] =
                IF outcome = NetRejected THEN "failed"
                ELSE IF Ok(outcome.status) THEN "putting" ELSE "done"]
    /\ IF pc[r] = "swr_wait"
       THEN IF outcome = NetRejected
            THEN /\ pc' = [pc EXCEPT ![r] = "err_own"]
                 /\ UNCHANGED resp
            ELSE /\ resp' = [resp EXCEPT ![r] = NetResponse(r, req[r].url, outcome.status)]
                 /\ pc' = [pc EXCEPT ![r] = "done"]
       ELSE UNCHANGED <<pc, resp>>
    /\ UNCHANGED <<req, strat, fetched, cacheVars, stratVars, actVars, formVars, extVars>>

\* staleWhileRevalidate's unawaited cache.put, when it settles
StaleWhileRevalidatePut(r, stored) ==
    /\ bg[r] = "putting"
    /\ stored \in PutOutcomes(req[r])
    /\ IF stored
       THEN /\ cacheData' = [cacheData EXCEPT ![RUNTIME_CACHE][req[r].url] =
                                NetResponse(r, req[r].url, net[r].status)]
            /\ bg' = [bg EXCEPT ![r] = "done"]
       ELSE /\ bg' = [bg EXCEPT ![r] = "failed"]
            /\ UNCHANGED cacheData
    /\ UNCHANGED <<req, strat, pc, net, resp, fetched, cacheOrder,
                   stratVars, actVars, formVars, extVars>>

\* a handleFetchError that tries the offline page for every request mode
HandleFetchErrorOwnAnyMode(r) ==
    /\ pc[r] = "err_own"
    /\ LET cachedResponse == CachesMatch(cacheOrder, cacheData, req[r]) IN
       IF cachedResponse # NoResp
       THEN /\ resp' = [resp EXCEPT ![r] = cachedResponse]
            /\ pc' = [pc EXCEPT ![r] = "done"]
       ELSE /\ pc' = [pc EXCEPT ![r] = "err_offline"]
            /\ UNCHANGED resp
    /\ UNCHANGED <<req, strat, bg, net, fetched, cacheVars, stratVars, actVars, formVars, extVars>>

\* handleFetchError, after `await caches.match(request)`
HandleFetchErrorOwn(r) ==
    /\ pc[r] = "err_own"
    /\ LET cachedResponse == CachesMatch(cacheOrder, cacheData, req[r]) IN
       IF cachedResponse # NoResp
       THEN /\ resp' = [resp EXCEPT ![r] = cachedResponse]
            /\ pc' = [pc EXCEPT ![r] = "done"]
       ELSE IF req[r].mode = "navigate"
       THEN /\ pc' = [pc EXCEPT ![r] = "err_offline"]
            /\ UNCHANGED resp
       ELSE /\ resp' = [resp EXCEPT ![r] = Unavailable]
            /\ pc' = [pc EXCEPT ![r] = "done"]
    /\ UNCHANGED <<req, strat, bg, net, fetched, cacheVars, stratVars, actVars, formVars, extVars>>

\* handleFetchError, after `await caches.match('/offline.html')`
HandleFetchErrorOffline(r) ==
    /\ pc[r] = "err_offline"
    /\ LET offlineResponse == CachesMatch(cacheOrder, cacheData, GetRequest(OfflineHtml)) IN
       resp' = [resp EXCEPT ![r] =
                   IF offlineResponse # NoResp THEN offlineResponse ELSE Unavailable]
    /\ pc' = [pc EXCEPT ![r] = "done"]
    /\ UNCHANGED <<req, strat, bg, net, fetched, cacheVars, stratVars, actVars, formVars, extVars>>

\* the cache storage a fetch event can find: the version store is empty (the
\* install's addAll failed and was swallowed) or holds the static assets; the
\* runtime store, older or newer than the version store, holds any entries
InitCaches ==
    /\ cacheOrder \in {<<CACHE_NAME>>, <<CACHE_NAME, RUNTIME_CACHE>>,
                       <<RUNTIME_CACHE, CACHE_NAME>>}
    /\ \E static \in {{}, StaticUrls}, runtime \in SUBSET Urls :
         /\ runtime # {} => RUNTIME_CACHE \in {cacheOrder[i] : i \in 1..Len(cacheOrder)}
         /\ cacheData = [n \in StoreNames |->
              IF n = CACHE_NAME
              THEN [u \in Urls |-> IF u \in static THEN Precached(u) ELSE NoResp]
              ELSE IF n = RUNTIME_CACHE
              THEN [u \in Urls |-> IF u \in runtime THEN Stored(u) ELSE NoResp]
              ELSE EmptyStore]

(***************************************************************************)
(* FormController (forms.js): validators.                                  *)
(***************************************************************************)
Digits == {"0","1","2","3","4","5","6","7","8","9"}
\* \s, as far as the inputs of the model go
Whitespace == {" "}
\* [\d\s\-\(\)]
PhoneChars == Digits \cup Whitespace \cup {"-", "(", ")"}

\* String.prototype.trim
RECURSIVE TrimStart(_)
TrimStart(s) ==
    IF s # <<>> /\ s[1] \in Whitespace THEN TrimStart(Tail(s)) ELSE s
RECURSIVE TrimEnd(_)
TrimEnd(s) ==
    IF s # <<>> /\ s[Len(s)] \in Whitespace THEN TrimEnd(SubSeq(s, 1, Len(s) - 1)) ELSE s
Trim(s) == TrimEnd(TrimStart(s))

\* [^\s@]+ matches the whole of s
NoSpaceNoAt(s) == Len(s) > 0 /\ \A i \in 1..Len(s) : s[i] \notin Whitespace \cup {"@"}

\* /^[^\s@]+@[^\s@]+\.[^\s@]+$/.test(s)
EmailRegexTest(s) ==
    \E i \in 1..Len(s), j \in 1..Len(s) :
        /\ i < j
        /\ s[i] = "@"
        /\ s[j] = "."
        /\ NoSpaceNoAt(SubSeq(s, 1, i - 1))
        /\ NoSpaceNoAt(SubSeq(s, i + 1, j - 1))
        /\ NoSpaceNoAt(SubSeq(s, j + 1, Len(s)))

\* /^[\+]?[\d\s\-\(\)]+$/.test(s)
PhoneRegexTest(s) ==
    LET rest == IF s # <<>> /\ s[1] = "+" THEN Tail(s) ELSE s IN
    Len(rest) > 0 /\ \A i \in 1..Len(rest) : rest[i] \in PhoneChars

\* the names setupValidators registers
KnownValidators == {"email", "required", "name", "phone"}

\* validators.get(name).validate(value)
ValidatorValidate(name, v) ==
    CASE name = "email" -> EmailRegexTest(v)
      [] name = "required" -> v # <<>> /\ Len(Trim(v)) > 0
      [] name = "name" -> v # <<>> /\ Len(Trim(v)) >= 2
      [] name = "phone" -> v = <<>> \/ PhoneRegexTest(v)
      [] OTHER -> TRUE

\* validators.get(name).message
ValidatorMessage(name) ==
    CASE name = "email" -> "Please enter a valid email address"
      [] name = "required" -> "This field is required"
      [] name = "name" -> "Name must be at least 2 characters long"
      [] name = "phone" -> "Please enter a valid phone number"
      [] OTHER -> ""

\* a validateField loop that rejects on a name that is not registered
FirstFailingUnknownRejects(validators, raw) ==
    LET v == Trim(raw)
        failing == {i \in 1..Len(validators) :
                       \/ validators[i] \notin KnownValidators
                       \/ ~ValidatorValidate(validators[i], v)}
    IN IF failing = {} THEN 0 ELSE CHOOSE i \in failing : \A j \in failing : i <= j

\* validateField's loop: the index of the first assigned validator that is
\* registered and rejects the trimmed value, 0 when there is none
FirstFailing(validators, raw) ==
    LET v == Trim(raw)
        failing == {i \in 1..Len(validators) :
                       /\ validators[i] \in KnownValidators
                       /\ ~ValidatorValidate(validators[i], v)}
    IN IF failing = {} THEN 0 ELSE CHOOSE i \in failing : \A j \in failing : i <= j

(***************************************************************************)
(* The page's forms.  The markup is not part of the program; the model     *)
(* takes a signup form (name, email) that resets on success and a contact  *)
(* form (phone, and a note without validators) with                        *)
(* data-reset-on-success="false".                                          *)
(***************************************************************************)
Forms == {"signup", "contact"}
\* formConfig.fields, in document order
FieldSeq(form) == IF form = "signup" THEN <<"name", "email">> ELSE <<"phone", "note">>
Fields == {"name", "email", "phone", "note"}
FormOf(f) == IF f \in {"name", "email"} THEN "signup" ELSE "contact"
NoField == "(none)"
\* fieldConfig.validators, from data-validators
AssignedValidators(f) ==
    CASE f = "name" -> <<"name">>
      [] f = "email" -> <<"required", "email">>
      [] f = "phone" -> <<"phone", "zip">>
      [] OTHER -> <<>>
\* element.dataset.resetOnSuccess !== 'false'
ResetOnSuccess(form) == form = "signup"
\* the value attribute of the markup, which form.reset() restores
DefaultValue(f) == <<>>

\* what the user types
\* into each field: an empty, a rejected and an accepted value, where the
\* field's validators tell them apart
InputsOf(f) ==
    CASE f = "name" -> {<<>>, <<"1","2">>}
      [] f = "email" -> {<<>>, <<"x">>, <<"a","@","b",".","c">>}
      [] f = "phone" -> {<<>>, <<"x">>}
      [] OTHER -> {<<>>, <<"x">>}

\* bound: handleSubmit calls that can be suspended at once in the model
MaxSubs == 2
Slots == 1..MaxSubs
\* bound: resetForm timeouts that can be pending for one form
MaxResetTimers == 1

FreeSlot == [form |-> "none", pc |-> "free"]
NoEvent == [kind |-> "none", form |-> "none", outcome |-> "none"]
OtherEvent == [kind |-> "other", form |-> "none", outcome |-> "none"]
SubmitEvent(form, outcome) == [kind |-> "submit", form |-> form, outcome |-> outcome]

HasValidatedField(form) ==
    \E i \in 1..Len(FieldSeq(form)) : AssignedValidators(FieldSeq(form)[i]) # <<>>

\* the controller after init(): initializeField and initializeForm.  The submit
\* button's disabled attribute comes from the markup and initializeForm does
\* not write it: the model takes markup that ships the button disabled when
\* the form has a validated field.
FormInit ==
    /\ value = [f \in Fields |-> DefaultValue(f)]
    /\ isValid = [f \in Fields |-> FALSE]
    /\ errorText = [f \in Fields |-> ""]
    /\ timer = [f \in Fields |-> FALSE]
    /\ focused = NoField
    /\ formIsValid = [form \in Forms |-> FALSE]
    /\ loadingState = [form \in Forms |-> FALSE]
    /\ btnDisabled = [form \in Forms |-> HasValidatedField(form)]
    /\ resetTimers = [form \in Forms |-> 0]
    /\ isSubmitting = FALSE
    /\ subs = [s \in Slots |-> FreeSlot]
    /\ ev = NoEvent

FormIdle == FormInit

\* every component of the service worker, the forms, the function and the
\* coordinator at rest
OldIdle ==
    /\ cacheOrder = <<>>
    /\ cacheData = [n \in StoreNames |-> EmptyStore]
    /\ StratIdle
    /\ FetchIdle
    /\ ActIdle
    /\ FormIdle
    /\ InstIdle
    /\ ApiIdle
    /\ RateIdle
    /\ AppIdle

ValOthersIdle ==
    /\ OldIdle
    /\ ReIdle
    /\ DebounceIdle
    /\ SyncIdle
    /\ PerfIdle
    /\ SwrIdle

ReOthersIdle ==
    /\ OldIdle
    /\ ValIdle
    /\ DebounceIdle
    /\ SyncIdle
    /\ PerfIdle
    /\ SwrIdle

DebounceOthersIdle ==
    /\ OldIdle
    /\ ValIdle
    /\ ReIdle
    /\ SyncIdle
    /\ PerfIdle
    /\ SwrIdle

SyncOthersIdle ==
    /\ OldIdle
    /\ ValIdle
    /\ ReIdle
    /\ DebounceIdle
    /\ PerfIdle
    /\ SwrIdle

PerfOthersIdle ==
    /\ OldIdle
    /\ ValIdle
    /\ ReIdle
    /\ DebounceIdle
    /\ SyncIdle
    /\ SwrIdle

SwrOthersIdle ==
    /\ OldIdle
    /\ ValIdle
    /\ ReIdle
    /\ DebounceIdle
    /\ SyncIdle
    /\ PerfIdle

(***************************************************************************)
(* Specification of fetch handling.                                        *)
(***************************************************************************)
InitFetch ==
    /\ InitCaches
    /\ FetchIdle
    /\ StratIdle
    /\ ActIdle
    /\ FormIdle
    /\ ExtIdle

NextFetch ==
    \/ \E r \in Events, q \in Requests : FetchEvent(r, q)
    \/ \E r \in Events : CacheFirstMatch(r)
    \/ \E r \in Events, outcome \in NetOutcomes : CacheFirstFetch(r, outcome)
    \/ \E r \in Events, stored \in BOOLEAN : CacheFirstPut(r, stored)
    \/ \E r \in Events, outcome \in NetOutcomes : NetworkFirstFetch(r, outcome)
    \/ \E r \in Events, stored \in BOOLEAN : NetworkFirstPut(r, stored)
    \/ \E r \in Events : NetworkFirstMatch(r)
    \/ \E r \in Events : StaleWhileRevalidateMatch(r)
    \/ \E r \in Events, outcome \in NetOutcomes : StaleWhileRevalidateFetch(r, outcome)
    \/ \E r \in Events, stored \in BOOLEAN : StaleWhileRevalidatePut(r, stored)
    \/ \E r \in Events : HandleFetchErrorOwn(r)
    \/ \E r \in Events : HandleFetchErrorOffline(r)

SpecFetch == InitFetch /\ [][NextFetch]_vars

(***************************************************************************)
(* Specification of request classification: determineStrategy applied to   *)
(* one request after another.                                              *)
(***************************************************************************)
\* the pathnames classified
StratPaths == {
    <<"/","a","p","i","/","d","a","t","a">>,   \* /api/data
    <<"/","a","p","i","/","l","o","g","o",".","p","n","g">>,   \* /api/logo.png
    <<"/","A","P","I","/","d","a","t","a">>,   \* /API/data
    <<"/","a","p","i","a","r","y">>,   \* /apiary
    <<"/","i","m","a","g","e","s","/","p","h","o","t","o",".","j","p","g">>,   \* /images/photo.jpg
    <<"/","i","m","g","/","a",".","J","P","E","G">>,   \* /img/a.JPEG
    <<"/","i",".","p","n","g">>,   \* /i.png
    <<"/","x",".","g","i","f">>,   \* /x.gif
    <<"/","x",".","w","e","b","p">>,   \* /x.webp
    <<"/","l","o","g","o",".","s","v","g">>,   \* /logo.svg
    <<"/","f",".","w","o","f","f">>,   \* /f.woff
    <<"/","f",".","w","o","f","f","2">>,   \* /f.woff2
    <<"/","f",".","t","t","f">>,   \* /f.ttf
    <<"/","f",".","e","o","t">>,   \* /f.eot
    <<"/","a","s","s","e","t","s","/","c","s","s","/","m","a","i","n",".","c","s","s">>,   \* /assets/css/main.css
    <<"/","a","s","s","e","t","s","/","j","s","/","m","a","i","n",".","j","s">>,   \* /assets/js/main.js
    <<"/","a","b","o","u","t">>,   \* /about
    <<"/">>,   \* /
    <<"/","i","n","d","e","x",".","h","t","m","l">>,   \* /index.html
    <<"/","d","o","c",".","p","d","f">>,   \* /doc.pdf
    <<"/","d","a","t","a",".","j","s","o","n">>,   \* /data.json
    <<"/","d","i","r",".","v","2","/","p","a","g","e">>,   \* /dir.v2/page
    <<"/","t","r","a","i","l","i","n","g",".">>    \* /trailing.
    }
\* Request.mode
StratModes == {"navigate", "cors", "no-cors", "same-origin"}
StratRequests == [url : StratPaths, method : {"GET"}, mode : StratModes, range : {FALSE}]

\* the fetch listener's call determineStrategy(url, request)
Classify ==
    /\ sResult = "none"
    /\ sResult' = determineStrategy(sReq.url, sReq.mode)
    /\ UNCHANGED <<sReq, cacheVars, fetchVars, actVars, formVars, extVars>>

\* the next request arrives
NextRequest(q) ==
    /\ sResult # "none"
    /\ sReq' = q
    /\ sResult' = "none"
    /\ UNCHANGED <<cacheVars, fetchVars, actVars, formVars, extVars>>

InitStrategy ==
    /\ sReq \in StratRequests
    /\ sResult = "none"
    /\ cacheOrder = <<>>
    /\ cacheData = [n \in StoreNames |-> EmptyStore]
    /\ FetchIdle
    /\ ActIdle
    /\ FormIdle
    /\ ExtIdle

NextStrategy ==
    \/ Classify
    \/ \E q \in StratRequests : NextRequest(q)

SpecStrategy == InitStrategy /\ [][NextStrategy]_vars

(***************************************************************************)
(* C4.  The classification the specification gives: /api/ first, then the  *)
(* image, font and css/js extensions, then navigation requests and         *)
(* extension-less paths, then everything else.  The extension is the text  *)
(* after the last dot of the path's last segment; a last segment without a *)
(* dot has none.                                                           *)
(***************************************************************************)
LastSegment(pathname) == SubSeq(pathname, LastIndexOf(pathname, "/") + 1, Len(pathname))
ExtensionLess(pathname) ==
    LastIndexOf(LastSegment(pathname), ".") = 0 \/ SplitDotPop(LastSegment(pathname)) = <<>>
ClaimedExtension(pathname) ==
    IF ExtensionLess(pathname) THEN <<>> ELSE ToLowerCase(SplitDotPop(LastSegment(pathname)))
ClaimedStrategy(pathname, mode) ==
    IF StartsWith(pathname, ApiPrefix) THEN "NetworkFirst"
    ELSE IF ClaimedExtension(pathname) \in ImageExtensions THEN "CacheFirst"
    ELSE IF ClaimedExtension(pathname) \in FontExtensions THEN "CacheFirst"
    ELSE IF ClaimedExtension(pathname) \in StaticExtensions THEN "CacheFirst"
    ELSE IF mode = "navigate" \/ ExtensionLess(pathname) THEN "StaleWhileRevalidate"
    ELSE "NetworkFirst"

\* C4: every classified request gets the strategy of the stated priority order.
\* Paths ending in .html, which the code also sends to stale-while-revalidate,
\* are left out, so that a violation is a request the stated order itself
\* decides differently from the code.
C4_StrategyByPriority ==
    (sResult # "none" /\ ~EndsWith(sReq.url, HtmlSuffix))
        => sResult = ClaimedStrategy(sReq.url, sReq.mode)

(***************************************************************************)
(* Activation (service-worker.js, the activate listener and                *)
(* cleanupOldCaches).  The listener starts cleanupOldCaches and            *)
(* clients.claim() together and waits for both.                            *)
(***************************************************************************)
\* the names in a creation-ordered list of stores
Names(order) == {order[i] : i \in 1..Len(order)}

\* order without the store called name
RECURSIVE Without(_, _)
Without(order, name) ==
    IF order = <<>> THEN <<>>
    ELSE IF Head(order) = name THEN Without(Tail(order), name)
    ELSE <<Head(order)>> \o Without(Tail(order), name)

\* cleanupOldCaches' filter that forgets the runtime store
IsOldCacheVersionOnly(name) == name # CACHE_NAME

\* cleanupOldCaches' filter: name !== CACHE_NAME && name !== RUNTIME_CACHE
IsOldCache(name) == name # CACHE_NAME /\ name # RUNTIME_CACHE

\* the activate listener runs: cleanupOldCaches suspends at caches.keys(),
\* clients.claim() is called
ActivateEvent ==
    /\ swState = "installed"
    /\ swState' = "activating"
    /\ actPc' = "keys"
    /\ claimed' = "pending"
    /\ UNCHANGED <<oldCaches, initOrder, initData, cacheVars, stratVars, fetchVars, formVars, extVars>>

\* cleanupOldCaches, after `await caches.keys()`: caches.delete is called for
\* every old name
CleanupKeys ==
    /\ actPc = "keys"
    /\ oldCaches' = {name \in Names(cacheOrder) : IsOldCache(name)}
    /\ actPc' = "deleting"
    /\ UNCHANGED <<swState, claimed, initOrder, initData, cacheVars, stratVars,
                   fetchVars, formVars, extVars>>

\* one caches.delete(name) completes
CleanupDelete(name) ==
    /\ actPc = "deleting"
    /\ name \in oldCaches
    /\ oldCaches' = oldCaches \ {name}
    /\ cacheOrder' = Without(cacheOrder, name)
    /\ cacheData' = [cacheData EXCEPT ![name] = EmptyStore]
    /\ UNCHANGED <<swState, actPc, claimed, initOrder, initData, stratVars,
                   fetchVars, formVars, extVars>>

\* Promise.all over the deletions resolves: cleanupOldCaches returns
CleanupDone ==
    /\ actPc = "deleting"
    /\ oldCaches = {}
    /\ actPc' = "done"
    /\ UNCHANGED <<swState, oldCaches, claimed, initOrder, initData, cacheVars,
                   stratVars, fetchVars, formVars, extVars>>

\* clients.claim() takes effect
ClientsClaim ==
    /\ claimed = "pending"
    /\ claimed' = "claimed"
    /\ UNCHANGED <<swState, actPc, oldCaches, initOrder, initData, cacheVars,
                   stratVars, fetchVars, formVars, extVars>>

\* the promise given to event.waitUntil resolves
Activated ==
    /\ swState = "activating"
    /\ actPc = "done"
    /\ claimed = "claimed"
    /\ swState' = "activated"
    /\ UNCHANGED <<actPc, oldCaches, claimed, initOrder, initData, cacheVars,
                   stratVars, fetchVars, formVars, extVars>>

\* what a store of the given name holds when it is not empty
FullStore(name) ==
    IF name = RUNTIME_CACHE
    THEN [u \in Urls |-> IF u \in {Root, ApiData, OfflineHtml} THEN Stored(u) ELSE NoResp]
    ELSE [u \in Urls |-> IF u \in StaticUrls THEN Precached(u) ELSE NoResp]

\* every list of distinct store names
RECURSIVE Orders(_)
Orders(names) ==
    IF names = {} THEN {<<>>}
    ELSE UNION {{<<n>> \o o : o \in Orders(names \ {n})} : n \in names}
AllOrders == UNION {Orders(S) : S \in SUBSET StoreNames}

\* an installed worker about to activate: any stores exist, in any creation
\* order, each empty or filled
InitActivate ==
    /\ cacheOrder \in AllOrders
    /\ \E full \in SUBSET Names(cacheOrder) :
         cacheData = [n \in StoreNames |-> IF n \in full THEN FullStore(n) ELSE EmptyStore]
    /\ initOrder = cacheOrder
    /\ initData = cacheData
    /\ swState = "installed"
    /\ actPc = "start"
    /\ oldCaches = {}
    /\ claimed = "idle"
    /\ StratIdle
    /\ FetchIdle
    /\ FormIdle
    /\ ExtIdle

NextActivate ==
    \/ ActivateEvent
    \/ CleanupKeys
    \/ \E name \in StoreNames : CleanupDelete(name)
    \/ CleanupDone
    \/ ClientsClaim
    \/ Activated

SpecActivate == InitActivate /\ [][NextActivate]_vars

\* C10: once cleanupOldCaches has returned, no store other than the current
\* version store and the runtime store exists, and each of these two that
\* existed before activation still exists and holds what it held.
C10_CleanupKeepsCurrentStores ==
    actPc = "done" =>
        /\ Names(cacheOrder) \subseteq {CACHE_NAME, RUNTIME_CACHE}
        /\ \A n \in {CACHE_NAME, RUNTIME_CACHE} :
             n \in Names(initOrder) => n \in Names(cacheOrder) /\ cacheData[n] = initData[n]

\* C10 witness: cleanupOldCaches has returned after deleting a stale store next
\* to a filled version store and a filled runtime store
C10_Witness ==
    /\ actPc = "done"
    /\ Names(initOrder) \cap StaleNames # {}
    /\ {CACHE_NAME, RUNTIME_CACHE} \subseteq Names(initOrder)
    /\ initData[CACHE_NAME] # EmptyStore
    /\ initData[RUNTIME_CACHE] # EmptyStore

(***************************************************************************)
(* Claims about fetch handling.                                            *)
(***************************************************************************)
\* a response that is an entry of a store for url u
IsEntryFor(response, u) ==
    /\ response.url = u
    /\ \/ response.kind \in {"precached", "stored"}
       \/ response.kind = "network" /\ Ok(response.status)

\* the entry of the runtime store for event r's url
RuntimeEntry(data, r) == data[RUNTIME_CACHE][req[r].url]

\* C5, as an action: when cacheFirst's lookup finds an entry the event is
\* answered with it and issues no fetch; when the fetch of a miss brings a
\* response, cacheFirst finishes with that response, stored in the runtime
\* store by then exactly when it is a 2xx response.
C5_Step(r) ==
    /\ (pc[r] = "cf_match" /\ pc'[r] # "cf_match") =>
          LET cachedResponse == CachesMatch(cacheOrder, cacheData, req[r]) IN
          IF cachedResponse # NoResp
          THEN pc'[r] = "done" /\ resp'[r] = cachedResponse /\ ~fetched'[r]
          ELSE fetched'[r]
    /\ (/\ pc[r] \in {"cf_fetch", "cf_put"}
        /\ pc'[r] \notin {"cf_fetch", "cf_put"}
        /\ net'[r].outcome = "response") =>
          /\ pc'[r] = "done"
          /\ resp'[r] = NetResponse(r, req[r].url, net'[r].status)
          /\ Ok(net'[r].status) <=> RuntimeEntry(cacheData', r) = resp'[r]

\* C5: cache-first returns the cached entry without a network fetch, and on a
\* miss returns the network response, stored first if and only if it is 2xx.
C5_CacheFirst == [][\A r \in Events : C5_Step(r)]_vars

\* C6, as stated: a network-first event whose fetch failed is answered with the
\* cached entry of its request, and without one the failure reaches the caller
\* (respondWith rejects).
C6_FailurePropagates ==
    \A r \in Events :
        (strat[r] = "NetworkFirst" /\ net[r] = NetRejected /\ pc[r] = "done")
            => (IsEntryFor(resp[r], req[r].url) \/ resp[r] = Rejected)

\* C6 amended, the step of networkFirst's catch: an entry found for the
\* request answers the event, and without one the error goes to the fetch
\* listener's catch (handleFetchError)
C6_CatchStep(r) ==
    (pc[r] = "nf_match" /\ pc'[r] # "nf_match" /\ net[r] = NetRejected) =>
        LET cachedResponse == CachesMatch(cacheOrder, cacheData, req[r]) IN
        IF cachedResponse # NoResp
        THEN pc'[r] = "done" /\ resp'[r] = cachedResponse
        ELSE pc'[r] = "err_own" /\ resp'[r] = NoResp

\* C6 amended, the answer: never a rejection; an entry of the request, or the
\* fallback of handleFetchError
C6_Answer(r) ==
    (strat[r] = "NetworkFirst" /\ net[r] = NetRejected /\ pc[r] = "done") =>
        \/ IsEntryFor(resp[r], req[r].url)
        \/ req[r].mode = "navigate" /\ IsEntryFor(resp[r], OfflineHtml)
        \/ resp[r] = Unavailable

\* C6 (amended): a network-first event whose fetch failed is answered with the
\* cached entry of its request if networkFirst finds one; if not, networkFirst
\* rethrows to the fetch listener, whose handleFetchError answers the caller
\* with an entry, the offline page (navigation) or the synthesized 503: the
\* failure is not propagated to the caller.
C6_FailureFallsBack ==
    /\ [](\A r \in Events : C6_Answer(r))
    /\ [][\A r \in Events : C6_CatchStep(r)]_vars

\* C6 witness: a network-first event whose fetch failed, with no cached entry,
\* has been answered with the synthesized 503; another was answered from cache
C6_Witness ==
    /\ \E r \in Events :
         /\ strat[r] = "NetworkFirst" /\ net[r] = NetRejected /\ pc[r] = "done"
         /\ resp[r] = Unavailable
    /\ \E r \in Events :
         /\ strat[r] = "NetworkFirst" /\ net[r] = NetRejected /\ pc[r] = "done"
         /\ IsEntryFor(resp[r], req[r].url)

\* C7: a network-first event, of any method, whose network fetch succeeded is
\* answered with exactly that network response, whatever the store write did.
C7_NetworkResponseReturned ==
    \A r \in Events :
        (strat[r] = "NetworkFirst" /\ net[r].outcome = "response" /\ pc[r] = "done")
            => resp[r] = NetResponse(r, req[r].url, net[r].status)

\* C8, as an action of event r
C8_Step(r) ==
    \* the lookup: the fetch is issued; a runtime entry answers the event at once
    /\ (pc[r] = "swr_match" /\ pc'[r] # "swr_match") =>
          LET cachedResponse == CacheMatch(cacheData[RUNTIME_CACHE], req[r]) IN
          /\ fetched'[r] /\ bg'[r] = "fetching"
          /\ IF cachedResponse # NoResp
             THEN pc'[r] = "done" /\ resp'[r] = cachedResponse
             ELSE pc'[r] = "swr_wait" /\ resp'[r] = NoResp
    \* the fetch of a waiting caller brings a response: the caller gets it
    /\ (pc[r] = "swr_wait" /\ net'[r].outcome = "response") =>
          pc'[r] = "done" /\ resp'[r] = NetResponse(r, req[r].url, net'[r].status)
    \* a 2xx result is put, and only a 2xx result
    /\ (bg[r] = "fetching" /\ bg'[r] # "fetching") =>
          (bg'[r] = "putting" <=> (net'[r].outcome = "response" /\ Ok(net'[r].status)))
    \* the put, when it succeeds, replaces the entry
    /\ (bg[r] = "putting" /\ bg'[r] = "done") =>
          RuntimeEntry(cacheData', r) = NetResponse(r, req[r].url, net[r].status)
    \* revalidation never changes an answer already given
    /\ (strat[r] = "StaleWhileRevalidate" /\ resp[r] # NoResp) => resp'[r] = resp[r]

\* C8: stale-while-revalidate answers with the runtime store's entry without
\* waiting for the network and still issues the fetch, whose 2xx result, once
\* its put succeeds, is the stored entry; without an entry the caller gets the
\* network response; no outcome of the revalidation changes an answer given.
C8_StaleWhileRevalidate == [][\A r \in Events : C8_Step(r)]_vars

\* C8 witness: event 1 was answered from the runtime store while its fetch was
\* out, its revalidation stored a fresh response, and event 2 was answered
\* with that response
C8_Witness ==
    /\ MaxEvents >= 2
    /\ strat[1] = "StaleWhileRevalidate" /\ resp[1] = Stored(req[1].url)
    /\ bg[1] = "done" /\ net[1] = NetGot(200)
    /\ strat[2] = "StaleWhileRevalidate" /\ req[2].url = req[1].url
    /\ resp[2] = NetResponse(1, req[1].url, 200)
    /\ bg[2] = "failed"

\* C9, as an action of event r: handleFetchError's two lookups
C9_Step(r) ==
    /\ (pc[r] = "err_own" /\ pc'[r] # "err_own") =>
          LET own == CachesMatch(cacheOrder, cacheData, req[r]) IN
          IF own # NoResp THEN pc'[r] = "done" /\ resp'[r] = own
          ELSE IF req[r].mode = "navigate" THEN pc'[r] = "err_offline" /\ resp'[r] = NoResp
          ELSE pc'[r] = "done" /\ resp'[r] = Unavailable
    /\ (pc[r] = "err_offline" /\ pc'[r] # "err_offline") =>
          LET offline == CachesMatch(cacheOrder, cacheData, GetRequest(OfflineHtml)) IN
          /\ pc'[r] = "done"
          /\ resp'[r] = IF offline # NoResp THEN offline ELSE Unavailable

\* C9, the strategies' failures: a strategy that ends without an answer hands
\* the event to handleFetchError, and every answer is a response
C9_Failure(r) ==
    /\ (pc[r] \in {"cf_fetch", "swr_wait"} /\ net'[r] = NetRejected) => pc'[r] = "err_own"
    /\ (pc[r] = "nf_match" /\ pc'[r] # "nf_match"
          /\ CachesMatch(cacheOrder, cacheData, req[r]) = NoResp) => pc'[r] = "err_own"
    /\ pc'[r] = "done" =>
          /\ resp'[r] \notin {NoResp, Rejected}
          /\ resp'[r] = Unavailable => (resp'[r].status = 503 /\ pc[r] \in {"done", "err_own", "err_offline"})

\* C9: when the strategy fails and the request has no cached entry, a
\* navigation is answered with the cached /offline.html if a store holds it
\* and with the synthesized 503 otherwise; any other request with the 503.
C9_FailureFallback == [][\A r \in Events : C9_Step(r) /\ C9_Failure(r)]_vars

\* C9 witness: a failed navigation was answered with the offline page, a failed
\* navigation with the 503, or a failed non-navigation with the 503, each
\* seen in some behaviour; the state below has the first and the last
C9_Witness ==
    /\ \E r \in Events :
         /\ req[r].mode = "navigate" /\ req[r].url # OfflineHtml /\ pc[r] = "done"
         /\ net[r] = NetRejected /\ IsEntryFor(resp[r], OfflineHtml)
    /\ \E r \in Events :
         /\ req[r].mode # "navigate" /\ pc[r] = "done"
         /\ net[r] = NetRejected /\ resp[r] = Unavailable

(***************************************************************************)
(* FormController (forms.js): the handlers.  A handler runs to its first   *)
(* await in one step; handleSubmit is suspended at `await fetch(...)` and  *)
(* at `await response.json()`.  The .form-message element, the CSS classes *)
(* and the analytics calls are written by the handlers and read by none;   *)
(* they are not part of the state.                                         *)
(***************************************************************************)
\* Array.from(formConfig.fields.values())
FieldsOf(form) == {FieldSeq(form)[i] : i \in 1..Len(FieldSeq(form))}

\* validateField: the isValid it computes for field f holding value v
FieldIsValid(f, v) == FirstFailing(AssignedValidators(f), v) = 0
\* validateField: the text it leaves in the field's error element
FieldErrorText(f, v) ==
    LET i == FirstFailing(AssignedValidators(f), v) IN
    IF i = 0 THEN "" ELSE ValidatorMessage(AssignedValidators(f)[i])

\* fieldConfig.isValid of every field after validateField ran on the fields F
ValidatedIsValid(iv, F) ==
    [f \in Fields |-> IF f \in F THEN FieldIsValid(f, value[f]) ELSE iv[f]]
\* the error elements after validateField ran on the fields F
ValidatedErrorText(et, F) ==
    [f \in Fields |-> IF f \in F THEN FieldErrorText(f, value[f]) ELSE et[f]]

\* updateFormValidation: allFieldsValid
AllFieldsValid(iv, form) ==
    \A f \in FieldsOf(form) : iv[f] \/ Len(AssignedValidators(f)) = 0
\* updateFormValidation on the forms G: formConfig.isValid
UpdatedFormIsValid(fiv, iv, G) ==
    [form \in Forms |-> IF form \in G THEN AllFieldsValid(iv, form) ELSE fiv[form]]
\* updateFormValidation on the forms G: submitButton.disabled
UpdatedDisabled(bd, iv, ls, G) ==
    [form \in Forms |-> IF form \in G THEN ~AllFieldsValid(iv, form) \/ ls[form]
                        ELSE bd[form]]

\* the fields whose blur listener runs when focus leaves for field t
Blurred(t) == IF focused = NoField \/ focused = t THEN {} ELSE {focused}
FormsOf(F) == {FormOf(f) : f \in F}

\* a validateForm that trusts fieldConfig.isValid instead of validating
validateFormCached(form) == isValid
\* validateForm: fieldConfig.isValid of every field after its forEach
validateForm(form) == ValidatedIsValid(isValid, FieldsOf(form))

\* a handleSubmit without its guard
handleSubmitUnguarded(form) == FALSE
\* handleSubmit's guard: the attempt is dropped
handleSubmitGuard(form) == isSubmitting \/ loadingState[form]

\* focusFirstInvalidField: the first field with !isValid, NoField without one
FirstInvalidField(iv, form) ==
    LET seq == FieldSeq(form)
        bad == {i \in 1..Len(seq) : ~iv[seq[i]]}
    IN IF bad = {} THEN NoField ELSE seq[CHOOSE i \in bad : \A j \in bad : i <= j]

FreeSlots == {s \in Slots : subs[s].pc = "free"}
InFlight(form) == {s \in Slots : subs[s].pc # "free" /\ subs[s].form = form}

\* the user types v into the focused field f: the input listener restarts the
\* field's debounce timeout
Input(f, v) ==
    /\ focused = f
    /\ v # value[f]
    /\ value' = [value EXCEPT ![f] = v]
    /\ timer' = [timer EXCEPT ![f] = TRUE]
    /\ ev' = OtherEvent
    /\ UNCHANGED <<isValid, errorText, focused, formIsValid, loadingState,
                   btnDisabled, resetTimers, isSubmitting, subs>>
    /\ UNCHANGED <<stratVars, cacheVars, fetchVars, actVars, extVars>>

\* the debounce timeout of field f fires: validateField, updateFormValidation
DebounceFire(f) ==
    /\ timer[f]
    /\ timer' = [timer EXCEPT ![f] = FALSE]
    /\ isValid' = ValidatedIsValid(isValid, {f})
    /\ errorText' = ValidatedErrorText(errorText, {f})
    /\ formIsValid' = UpdatedFormIsValid(formIsValid, isValid', {FormOf(f)})
    /\ btnDisabled' = UpdatedDisabled(btnDisabled, isValid', loadingState, {FormOf(f)})
    /\ ev' = OtherEvent
    /\ UNCHANGED <<value, focused, loadingState, resetTimers, isSubmitting, subs>>
    /\ UNCHANGED <<stratVars, cacheVars, fetchVars, actVars, extVars>>

\* focus moves to t (a field, or NoField when it leaves the forms): the blur
\* listeners of the field that had it (validateField, updateFormValidation),
\* then the focus listener of t (clearFieldError)
Focus(t) ==
    /\ t # focused
    /\ focused' = t
    /\ isValid' = ValidatedIsValid(isValid, Blurred(t))
    /\ errorText' = [f \in Fields |->
                        IF f = t THEN "" ELSE ValidatedErrorText(errorText, Blurred(t))[f]]
    /\ formIsValid' = UpdatedFormIsValid(formIsValid, isValid', FormsOf(Blurred(t)))
    /\ btnDisabled' = UpdatedDisabled(btnDisabled, isValid', loadingState, FormsOf(Blurred(t)))
    /\ ev' = OtherEvent
    /\ UNCHANGED <<value, timer, loadingState, resetTimers, isSubmitting, subs>>
    /\ UNCHANGED <<stratVars, cacheVars, fetchVars, actVars, extVars>>

\* a submit event of the form's element: handleSubmit up to its first await
Submit(form) ==
    IF handleSubmitGuard(form)
    THEN \* line 313: return
         /\ ev' = SubmitEvent(form, "dropped")
         /\ UNCHANGED <<value, isValid, errorText, timer, focused, formIsValid,
                        loadingState, btnDisabled, resetTimers,
                        isSubmitting, subs>>
         /\ UNCHANGED <<stratVars, cacheVars, fetchVars, actVars, extVars>>
    ELSE LET iv == validateForm(form)
             et == ValidatedErrorText(errorText, FieldsOf(form))
             ok == \A f \in FieldsOf(form) : iv[f]
             t  == FirstInvalidField(iv, form)
         IN
         IF ~ok
         THEN \* validateForm failed: focusFirstInvalidField, whose
              \* element.focus() runs the blur and focus listeners
              /\ ev' = SubmitEvent(form, "invalid")
              /\ focused' = t
              /\ isValid' = [f \in Fields |->
                                IF f \in Blurred(t) THEN FieldIsValid(f, value[f]) ELSE iv[f]]
              /\ errorText' =
                    IF t = focused THEN et
                    ELSE [[f \in Fields |->
                              IF f \in Blurred(t) THEN FieldErrorText(f, value[f]) ELSE et[f]]
                          EXCEPT ![t] = ""]
              /\ formIsValid' = UpdatedFormIsValid([formIsValid EXCEPT ![form] = FALSE],
                                                   isValid', FormsOf(Blurred(t)))
              /\ btnDisabled' = UpdatedDisabled(btnDisabled, isValid', loadingState,
                                                FormsOf(Blurred(t)))
              /\ UNCHANGED <<value, timer, loadingState, resetTimers,
                             isSubmitting, subs>>
              /\ UNCHANGED <<stratVars, cacheVars, fetchVars, actVars, extVars>>
         ELSE \* setFormLoadingState(true), collectFormData, submitToAPI's fetch
              /\ FreeSlots # {}
              /\ ev' = SubmitEvent(form, "sent")
              /\ isValid' = iv
              /\ errorText' = et
              /\ formIsValid' = [formIsValid EXCEPT ![form] = TRUE]
              /\ loadingState' = [loadingState EXCEPT ![form] = TRUE]
              /\ isSubmitting' = TRUE
              /\ btnDisabled' = [btnDisabled EXCEPT ![form] = TRUE]
              /\ LET s == CHOOSE x \in FreeSlots : \A y \in FreeSlots : x <= y IN
                 subs' = [subs EXCEPT ![s] = [form |-> form, pc |-> "fetch"]]
              /\ UNCHANGED <<value, timer, focused, resetTimers>>
              /\ UNCHANGED <<stratVars, cacheVars, fetchVars, actVars, extVars>>


\* handleSubmit's finally, setFormLoadingState(false), for the submission in
\* slot s
Finally(s) ==
    /\ loadingState' = [loadingState EXCEPT ![subs[s].form] = FALSE]
    /\ isSubmitting' = FALSE
    /\ btnDisabled' = [btnDisabled EXCEPT ![subs[s].form] = FALSE]
    /\ subs' = [subs EXCEPT ![s] = FreeSlot]

\* a fetch whose failure skips handleSubmit's finally
FetchSettlesWithoutFinally(s, outcome) ==
    /\ subs[s].pc = "fetch"
    /\ ev' = OtherEvent
    /\ IF outcome = "ok"
       THEN subs' = [subs EXCEPT ![s].pc = "json"]
       ELSE subs' = [subs EXCEPT ![s] = FreeSlot]
    /\ UNCHANGED <<loadingState, isSubmitting, btnDisabled>>
    /\ UNCHANGED <<value, isValid, errorText, timer, focused, formIsValid, resetTimers>>
    /\ UNCHANGED <<stratVars, cacheVars, fetchVars, actVars, extVars>>

\* submitToAPI's fetch settles: a 2xx response goes on to response.json();
\* another status throws, a network failure rejects, and handleSubmit's catch
\* (handleSubmissionError) and finally run
FetchSettles(s, outcome) ==
    /\ subs[s].pc = "fetch"
    /\ ev' = OtherEvent
    /\ IF outcome = "ok"
       THEN /\ subs' = [subs EXCEPT ![s].pc = "json"]
            /\ UNCHANGED <<loadingState, isSubmitting, btnDisabled>>
       ELSE Finally(s)
    /\ UNCHANGED <<value, isValid, errorText, timer, focused, formIsValid, resetTimers>>
    /\ UNCHANGED <<stratVars, cacheVars, fetchVars, actVars, extVars>>

\* response.json() settles: parsed, handleSubmissionSuccess arms the resetForm
\* timeout unless data-reset-on-success="false"; a body that does not parse
\* goes to the catch.  The finally runs in both.
JsonSettles(s, parsed) ==
    /\ subs[s].pc = "json"
    /\ ev' = OtherEvent
    /\ IF parsed /\ ResetOnSuccess(subs[s].form)
       THEN /\ resetTimers[subs[s].form] < MaxResetTimers
            /\ resetTimers' = [resetTimers EXCEPT ![subs[s].form] = @ + 1]
       ELSE UNCHANGED resetTimers
    /\ Finally(s)
    /\ UNCHANGED <<value, isValid, errorText, timer, focused, formIsValid>>
    /\ UNCHANGED <<stratVars, cacheVars, fetchVars, actVars, extVars>>

\* a resetForm timeout of the form fires
ResetTimerFires(form) ==
    /\ resetTimers[form] > 0
    /\ resetTimers' = [resetTimers EXCEPT ![form] = @ - 1]
    /\ value' = [f \in Fields |-> IF f \in FieldsOf(form) THEN DefaultValue(f) ELSE value[f]]
    /\ isValid' = [f \in Fields |-> IF f \in FieldsOf(form) THEN FALSE ELSE isValid[f]]
    /\ errorText' = [f \in Fields |-> IF f \in FieldsOf(form) THEN "" ELSE errorText[f]]
    /\ formIsValid' = UpdatedFormIsValid(formIsValid, isValid', {form})
    /\ btnDisabled' = UpdatedDisabled(btnDisabled, isValid', loadingState, {form})
    /\ ev' = OtherEvent
    /\ UNCHANGED <<timer, focused, loadingState, isSubmitting, subs>>
    /\ UNCHANGED <<stratVars, cacheVars, fetchVars, actVars, extVars>>

(***************************************************************************)
(* Specification of the forms of one page.                                 *)
(***************************************************************************)
InitForm ==
    /\ FormInit
    /\ cacheOrder = <<>>
    /\ cacheData = [n \in StoreNames |-> EmptyStore]
    /\ StratIdle
    /\ FetchIdle
    /\ ActIdle
    /\ ExtIdle

FetchOutcomes == {"ok", "http_error", "network_error"}

NextForm ==
    \/ \E f \in Fields : \E v \in InputsOf(f) : Input(f, v)
    \/ \E f \in Fields : DebounceFire(f)
    \/ \E t \in Fields \cup {NoField} : Focus(t)
    \/ \E form \in Forms : Submit(form)
    \/ \E s \in Slots, outcome \in FetchOutcomes : FetchSettles(s, outcome)
    \/ \E s \in Slots, parsed \in BOOLEAN : JsonSettles(s, parsed)
    \/ \E form \in Forms : ResetTimerFires(form)

SpecForm == InitForm /\ [][NextForm]_vars

\* the page after the user has gone through every field, typing a value or
\* leaving it empty: each field validated by its blur listener
FormFilled ==
    /\ \A f \in Fields : value[f] \in InputsOf(f)
    /\ isValid = [f \in Fields |-> FieldIsValid(f, value[f])]
    /\ errorText = [f \in Fields |-> FieldErrorText(f, value[f])]
    /\ timer = [f \in Fields |-> FALSE]
    /\ focused = NoField
    /\ formIsValid = [form \in Forms |-> AllFieldsValid(isValid, form)]
    /\ loadingState = [form \in Forms |-> FALSE]
    /\ btnDisabled = [form \in Forms |-> ~AllFieldsValid(isValid, form)]
    /\ resetTimers = [form \in Forms |-> 0]
    /\ isSubmitting = FALSE
    /\ subs = [s \in Slots |-> FreeSlot]
    /\ ev = OtherEvent

InitFormLive ==
    /\ value \in [Fields -> UNION {InputsOf(f) : f \in Fields}]
    /\ FormFilled
    /\ cacheOrder = <<>>
    /\ cacheData = [n \in StoreNames |-> EmptyStore]
    /\ StratIdle
    /\ FetchIdle
    /\ ActIdle
    /\ ExtIdle

\* the submissions of a filled-in page
NextFormLive ==
    \/ \E t \in Fields \cup {NoField} : Focus(t)
    \/ \E form \in Forms : Submit(form)
    \/ \E s \in Slots, outcome \in FetchOutcomes : FetchSettles(s, outcome)
    \/ \E s \in Slots, parsed \in BOOLEAN : JsonSettles(s, parsed)
    \/ \E form \in Forms : ResetTimerFires(form)

\* every pending fetch, response.json() and resetForm timeout settles or fires
\* in the end
SpecFormLive ==
    /\ InitFormLive
    /\ [][NextFormLive]_vars
    /\ WF_vars(\E s \in Slots, outcome \in FetchOutcomes : FetchSettles(s, outcome))
    /\ WF_vars(\E s \in Slots, parsed \in BOOLEAN : JsonSettles(s, parsed))
    /\ WF_vars(\E form \in Forms : ResetTimerFires(form))

(***************************************************************************)
(* Claims about the forms.                                                 *)
(***************************************************************************)
\* the form's fields all pass their validators on their current values
CurrentlyValid(form) == \A f \in FieldsOf(form) : FieldIsValid(f, value[f])

\* C1, as stated: after every submit attempt, every field of the form holds
\* the validity of its current value (handleSubmit re-validated it).
C1_EveryAttemptRevalidates ==
    ev.kind = "submit" =>
        \A f \in FieldsOf(ev.form) : isValid[f] = FieldIsValid(f, value[f])

\* C1 amended, the attempt that passed the guard: every field was re-validated
\* against its current value, and the request went out only if all passed
C1_Attempt ==
    (ev.kind = "submit" /\ ev.outcome # "dropped") =>
        /\ \A f \in FieldsOf(ev.form) : isValid[f] = FieldIsValid(f, value[f])
        /\ ev.outcome = "sent" <=> CurrentlyValid(ev.form)
        /\ ev.outcome = "sent" <=> InFlight(ev.form) # {}

\* C1 amended, the request: a submission starts only in a submit attempt on a
\* form whose fields are all valid, and an attempt on a form with an invalid
\* field starts none
C1_Request ==
    /\ \A s \in Slots :
          (subs[s].pc = "free" /\ subs'[s].pc # "free") =>
              /\ ev' = SubmitEvent(subs'[s].form, "sent")
              /\ \A f \in FieldsOf(subs'[s].form) : FieldIsValid(f, value'[f])
    /\ (ev'.kind = "submit" /\ ~CurrentlyValid(ev'.form)) =>
          (subs' = subs /\ ev'.outcome # "sent")

\* C1 (amended): every submit attempt that is not dropped by the in-flight
\* guard synchronously re-validates every field of the form against its
\* current value, whatever debounce timers are pending; and in every submit
\* attempt, dropped or not, on a form with a field that fails one of its
\* validators no network request is issued.
C1_SubmitValidates == []C1_Attempt /\ [][C1_Request]_vars

\* C1 witness: an attempt rejected by validation while the debounce timer of
\* an invalid field was still pending
C1_Witness ==
    \E form \in Forms :
        /\ ev = SubmitEvent(form, "invalid")
        /\ InFlight(form) = {}
        /\ \E f \in FieldsOf(form) : timer[f] /\ ~isValid[f] /\ value[f] # <<>>

\* C2, the state: no form has two submissions in flight
C2_AtMostOne == \A form \in Forms : Cardinality(InFlight(form)) <= 1

\* C2, the attempt: a submit event on a form with a submission in flight is
\* dropped, and no submission starts
C2_Dropped ==
    (ev'.kind = "submit" /\ InFlight(ev'.form) # {}) =>
        (ev'.outcome = "dropped" /\ subs' = subs)

\* C2: at most one submission of a form is in flight at any time; a submit
\* attempt arriving while the form's submission has not completed is dropped,
\* neither queued nor sent.
C2_OneInFlight == []C2_AtMostOne /\ [][C2_Dropped]_vars

\* C2 witness: an attempt on a form whose fields are all valid was dropped
\* while the form's submission was in flight
C2_Witness ==
    \E form \in Forms :
        /\ ev = SubmitEvent(form, "dropped")
        /\ InFlight(form) # {}
        /\ CurrentlyValid(form)

\* C3: the submit button is enabled only if every field with at least one
\* assigned validator has isValid = true.
C3_EnabledOnlyIfValid ==
    \A form \in Forms :
        ~btnDisabled[form] =>
            \A f \in FieldsOf(form) : AssignedValidators(f) # <<>> => isValid[f]


(***************************************************************************)
(* Installation (service-worker.js, the install listener).  The promise    *)
(* handed to event.waitUntil is the chain open -> addAll -> skipWaiting    *)
(* with a trailing catch; the browser moves the worker to installed when   *)
(* it fulfils and to redundant when it rejects.                            *)
(***************************************************************************)
\* the actVars an install step leaves alone
instActRest == <<actPc, oldCaches, claimed, initOrder, initData>>
instOthers == <<stratVars, fetchVars, formVars, apiVars, rateVars, appVars, moreVars>>

\* the install event is dispatched: caches.open(CACHE_NAME) is called
InstallEvent ==
    /\ instPc = "idle"
    /\ instPc' = "open"
    /\ UNCHANGED <<cacheVars, skipWaiting, swState, instActRest, instOthers>>

\* caches.open(CACHE_NAME) fulfils
InstallOpen ==
    /\ instPc = "open"
    /\ cacheOrder' = CachesOpen(cacheOrder, CACHE_NAME)
    /\ instPc' = "addAll"
    /\ UNCHANGED <<cacheData, skipWaiting, swState, instActRest, instOthers>>

\* cache.addAll(STATIC_ASSETS) settles.  It stores every asset or none: it
\* rejects when one request fails or is answered with a non-2xx status, and
\* the chain's catch then turns the rejection into a fulfilled promise
InstallAddAll(added) ==
    /\ instPc = "addAll"
    /\ IF added
       THEN /\ cacheData' = [cacheData EXCEPT ![CACHE_NAME] =
                                [u \in Urls |-> IF u \in StaticUrls THEN Precached(u) ELSE @[u]]]
            /\ instPc' = "skipWaiting"
       ELSE /\ instPc' = "settled"
            /\ UNCHANGED cacheData
    /\ UNCHANGED <<cacheOrder, skipWaiting, swState, instActRest, instOthers>>

\* self.skipWaiting()
InstallSkipWaiting ==
    /\ instPc = "skipWaiting"
    /\ skipWaiting' = TRUE
    /\ instPc' = "settled"
    /\ UNCHANGED <<cacheVars, swState, instActRest, instOthers>>

\* the waitUntil promise has settled: the browser ends the install step
InstallSettled ==
    /\ instPc \in {"settled", "rejected"}
    /\ swState' = IF instPc = "settled" THEN "installed" ELSE "redundant"
    /\ instPc' = "done"
    /\ UNCHANGED <<cacheVars, skipWaiting, instActRest, instOthers>>

\* a worker being installed: any stores of earlier releases exist, a store of
\* this release does not hold the manifest yet
InitInstall ==
    /\ cacheOrder \in AllOrders
    /\ \E full \in SUBSET (Names(cacheOrder) \ {CACHE_NAME}) :
         cacheData = [n \in StoreNames |-> IF n \in full THEN FullStore(n) ELSE EmptyStore]
    /\ instPc = "idle"
    /\ skipWaiting = FALSE
    /\ swState = "installing"
    /\ actPc = "start"
    /\ oldCaches = {}
    /\ claimed = "idle"
    /\ initOrder = <<>>
    /\ initData = [n \in StoreNames |-> EmptyStore]
    /\ StratIdle
    /\ FetchIdle
    /\ FormIdle
    /\ ApiIdle
    /\ RateIdle
    /\ AppIdle
    /\ MoreIdle

NextInstall ==
    \/ InstallEvent
    \/ InstallOpen
    \/ \E added \in BOOLEAN : InstallAddAll(added)
    \/ InstallSkipWaiting
    \/ InstallSettled

SpecInstall == InitInstall /\ [][NextInstall]_vars

\* C11: a worker that has left the installing state as installed has every
\* asset of STATIC_ASSETS in the version-tagged store.
C11_InstalledHasManifest ==
    swState = "installed" =>
        /\ CACHE_NAME \in Names(cacheOrder)
        /\ \A u \in StaticUrls : cacheData[CACHE_NAME][u] # NoResp


(***************************************************************************)
(* The email-capture function (functions/index.js): request validation.    *)
(* Joi, validator.normalizeEmail and Firestore are libraries; they are     *)
(* modelled by what they do to the inputs of the model.                    *)
(***************************************************************************)
\* emailSchema.email: .max(254)
MaxEmailLength == 254
\* emailSchema.metadata: .max(10)
MaxMetadataKeys == 10
GmailCom == <<"g","m","a","i","l",".","c","o","m">>
At == "@"
Dot == "."

\* the position of the first occurrence of c in s, 0 when there is none
FirstIndexOf(s, c) ==
    LET hits == {i \in 1..Len(s) : s[i] = c} IN
    IF hits = {} THEN 0 ELSE CHOOSE i \in hits : \A j \in hits : i <= j

\* emailSchema.email: Joi.string().email().max(254).required(): one "@", a
\* local part, and a domain of at least two non-empty segments
JoiEmail(e) ==
    LET i == FirstIndexOf(e, At)
        domain == SubSeq(e, i + 1, Len(e))
        d == LastIndexOf(domain, Dot)
    IN /\ e # NoEmail
       /\ Len(e) <= MaxEmailLength
       /\ i > 1
       /\ i = LastIndexOf(e, At)
       /\ d > 1 /\ d < Len(domain)
       /\ \A k \in 1..Len(domain) - 1 : ~(domain[k] = Dot /\ domain[k + 1] = Dot)

\* domains for which validator.normalizeEmail has provider rules; it returns
\* false for an address of one of them whose local part is empty
ProviderDomains == {GmailCom}

\* sanitizeEmail: validator.normalizeEmail with the options of the source,
\* which switch every removal off: the address is lowercased (all_lowercase
\* is on by default).  NoEmail stands for its result false.
sanitizeEmail(e) ==
    LET i == LastIndexOf(e, At)
        user == SubSeq(e, 1, i - 1)
        domain == ToLowerCase(SubSeq(e, i + 1, Len(e)))
    IN IF domain \in ProviderDomains /\ user = <<>> THEN NoEmail
       ELSE ToLowerCase(user) \o <<At>> \o domain

disposableDomains == {
    <<"1","0","m","i","n","u","t","e","m","a","i","l",".","c","o","m">>,
    <<"g","u","e","r","r","i","l","l","a","m","a","i","l",".","c","o","m">>,
    <<"m","a","i","l","i","n","a","t","o","r",".","c","o","m">>,
    <<"t","e","m","p","-","m","a","i","l",".","o","r","g">>,
    <<"t","h","r","o","w","a","w","a","y",".","e","m","a","i","l">>,
    <<"y","o","p","m","a","i","l",".","c","o","m">> }

\* a validateEmailDomain without its blocklist
validateEmailDomainAny(e) == FirstIndexOf(e, At) > 0 /\ FirstIndexOf(e, At) < Len(e)

\* validateEmailDomain
validateEmailDomain(e) ==
    LET i == FirstIndexOf(e, At)
        rest == SubSeq(e, i + 1, Len(e))
        j == FirstIndexOf(rest, At)
        \* email.split('@')[1]
        domain == IF i = 0 THEN <<>>
                  ELSE IF j = 0 THEN rest ELSE SubSeq(rest, 1, j - 1)
    IN IF domain = <<>> THEN FALSE
       ELSE ToLowerCase(domain) \notin disposableDomains


(***************************************************************************)
(* The email-capture function: the POST /email-capture handler.  Every     *)
(* await is a step of its own, so the handlers of concurrent requests      *)
(* interleave at their Firestore calls.                                    *)
(***************************************************************************)

\* metadata keys; a metadata object is the set of its keys
MetaKeys == 1..(MaxMetadataKeys + 1)
Metas == { {}, 1..MaxMetadataKeys, 2..(MaxMetadataKeys + 1), MetaKeys }

EmailLower == <<"a","@","b",".","c","o">>
EmailUpper == <<"A","@","B",".","c","o">>
EmailBlocked == <<"x","@","Y","o","p","m","a","i","l",".","c","o","m">>
EmailNoAt == <<"a","b">>
\* the request bodies of the model; an email of NoEmail is a body without one
Bodies == [email : {EmailLower, EmailUpper, EmailBlocked, EmailNoAt, NoEmail},
           metadata : Metas]

\* emailSchema.validate(req.body).error
SchemaError(body) ==
    \/ ~JoiEmail(body.email)
    \/ Cardinality(body.metadata) > MaxMetadataKeys

\* res.status(...).json(...): success, isNew and leadId of the body; count is
\* the subscriptionCount the handler's write left in the document (not sent)
Response(out) ==
    [status |-> out.status, success |-> out.status \in {200, 201},
     isNew |-> out.isNew, leadId |-> out.leadId, count |-> out.count]

\* a lookup that never finds a document
LookupNothing(docs, email) == NoDoc

\* .where('email', '==', sanitizedEmail).limit(1).get(): the first match, as a
\* snapshot of the document, or NoDoc
Lookup(docs, email) ==
    LET hits == {i \in 1..Len(docs) : docs[i].email = email} IN
    IF hits = {} THEN NoDoc
    ELSE LET i == CHOOSE x \in hits : \A y \in hits : x <= y IN
         [id |-> i, email |-> docs[i].email,
          subscriptionCount |-> docs[i].subscriptionCount,
          metadata |-> docs[i].metadata]


apiOthers == <<stratVars, cacheVars, fetchVars, actVars, formVars, instVars, rateVars, appVars, moreVars>>

\* a logAnalyticsEvent without its try / catch: a failed write throws into the
\* handler's catch, which logs email_capture_error and answers 500
LogAnalyticsUncaught(r, ok) ==
    /\ hPc[r] = "log"
    /\ hLog' = [hLog EXCEPT ![r] = Append(@, [event |-> hOut[r].event, ok |-> ok])]
    /\ IF ok \/ hOut[r].status = 500
       THEN /\ hResp' = [hResp EXCEPT ![r] = Response(hOut[r])]
            /\ hPc' = [hPc EXCEPT ![r] = "done"]
            /\ UNCHANGED hOut
       ELSE /\ hOut' = [hOut EXCEPT ![r] = Outcome(500, "email_capture_error", FALSE, 0, 0)]
            /\ UNCHANGED <<hResp, hPc>>
    /\ UNCHANGED <<leads, hReq, hSnap, apiOthers>>

\* a handler that answers a failed lookup without logging it
QueryUnlogged(r, ok) ==
    /\ hPc[r] = "query"
    /\ IF ok
       THEN LET doc == Lookup(leads, sanitizeEmail(hReq[r].email)) IN
            /\ hSnap' = [hSnap EXCEPT ![r] = doc]
            /\ hPc' = [hPc EXCEPT ![r] = IF doc = NoDoc THEN "add" ELSE "update"]
            /\ UNCHANGED <<hOut, hResp>>
       ELSE /\ hResp' = [hResp EXCEPT ![r] =
                           Response(Outcome(500, "email_capture_error", FALSE, 0, 0))]
            /\ hPc' = [hPc EXCEPT ![r] = "done"]
            /\ UNCHANGED <<hOut, hSnap>>
    /\ UNCHANGED <<leads, hReq, hLog, apiOthers>>

\* a request that passed the rate limiter: the handler up to its first await
Arrive(r, body) ==
    /\ hPc[r] = "idle"
    /\ IF r = 1 THEN TRUE ELSE hPc[r - 1] # "idle"
    /\ hReq' = [hReq EXCEPT ![r] = body]
    /\ IF SchemaError(body)
       THEN /\ hOut' = [hOut EXCEPT ![r] =
                          Outcome(400, "email_capture_validation_error", FALSE, 0, 0)]
            /\ hPc' = [hPc EXCEPT ![r] = "log"]
            /\ UNCHANGED hResp
       ELSE IF sanitizeEmail(body.email) = NoEmail
       THEN \* lines 156-161: answered without an analytics event
            /\ hResp' = [hResp EXCEPT ![r] = Response(Outcome(400, "none", FALSE, 0, 0))]
            /\ hPc' = [hPc EXCEPT ![r] = "done"]
            /\ UNCHANGED hOut
       ELSE IF ~validateEmailDomain(sanitizeEmail(body.email))
       THEN /\ hOut' = [hOut EXCEPT ![r] =
                          Outcome(400, "email_capture_blocked_domain", FALSE, 0, 0)]
            /\ hPc' = [hPc EXCEPT ![r] = "log"]
            /\ UNCHANGED hResp
       ELSE /\ hPc' = [hPc EXCEPT ![r] = "query"]
            /\ UNCHANGED <<hOut, hResp>>
    /\ UNCHANGED <<leads, hSnap, hLog, apiOthers>>

\* the lookup settles: on a hit the handler calls update on the document it
\* found, on a miss add; a rejected get goes to the handler's catch
Query(r, ok) ==
    /\ hPc[r] = "query"
    /\ IF ok
       THEN LET doc == Lookup(leads, sanitizeEmail(hReq[r].email)) IN
            /\ hSnap' = [hSnap EXCEPT ![r] = doc]
            /\ hPc' = [hPc EXCEPT ![r] = IF doc = NoDoc THEN "add" ELSE "update"]
            /\ UNCHANGED hOut
       ELSE /\ hOut' = [hOut EXCEPT ![r] = Outcome(500, "email_capture_error", FALSE, 0, 0)]
            /\ hPc' = [hPc EXCEPT ![r] = "log"]
            /\ UNCHANGED hSnap
    /\ UNCHANGED <<leads, hReq, hResp, hLog, apiOthers>>

\* db.collection('email_leads').add(leadData) settles
Add(r, ok) ==
    /\ hPc[r] = "add"
    /\ IF ok
       THEN /\ leads' = Append(leads, [email |-> sanitizeEmail(hReq[r].email),
                                       subscriptionCount |-> 1,
                                       metadata |-> hReq[r].metadata])
            /\ hOut' = [hOut EXCEPT ![r] =
                          Outcome(201, "email_capture_success", TRUE, Len(leads) + 1, 1)]
       ELSE /\ hOut' = [hOut EXCEPT ![r] = Outcome(500, "email_capture_error", FALSE, 0, 0)]
            /\ UNCHANGED leads
    /\ hPc' = [hPc EXCEPT ![r] = "log"]
    /\ UNCHANGED <<hReq, hSnap, hResp, hLog, apiOthers>>

\* existingDoc.ref.update(...) settles: the counter is incremented by the
\* server, the metadata written is the merge the handler computed from the
\* snapshot its lookup returned
Update(r, ok) ==
    /\ hPc[r] = "update"
    /\ IF ok
       THEN /\ leads' = [leads EXCEPT ![hSnap[r].id] =
                           [email |-> @.email,
                            subscriptionCount |-> @.subscriptionCount + 1,
                            metadata |-> hSnap[r].metadata \cup hReq[r].metadata]]
            /\ hOut' = [hOut EXCEPT ![r] =
                          Outcome(200, "email_capture_duplicate", FALSE, hSnap[r].id,
                                  leads[hSnap[r].id].subscriptionCount + 1)]
       ELSE /\ hOut' = [hOut EXCEPT ![r] = Outcome(500, "email_capture_error", FALSE, 0, 0)]
            /\ UNCHANGED leads
    /\ hPc' = [hPc EXCEPT ![r] = "log"]
    /\ UNCHANGED <<hReq, hSnap, hResp, hLog, apiOthers>>

\* logAnalyticsEvent settles, its write stored or failed (and swallowed by its
\* catch), and the handler answers
LogAnalytics(r, ok) ==
    /\ hPc[r] = "log"
    /\ hLog' = [hLog EXCEPT ![r] = Append(@, [event |-> hOut[r].event, ok |-> ok])]
    /\ hResp' = [hResp EXCEPT ![r] = Response(hOut[r])]
    /\ hPc' = [hPc EXCEPT ![r] = "done"]
    /\ UNCHANGED <<leads, hReq, hSnap, hOut, apiOthers>>

InitLeads ==
    /\ ApiIdle
    /\ cacheOrder = <<>>
    /\ cacheData = [n \in StoreNames |-> EmptyStore]
    /\ StratIdle
    /\ FetchIdle
    /\ ActIdle
    /\ FormIdle
    /\ InstIdle
    /\ RateIdle
    /\ AppIdle
    /\ MoreIdle

NextLeads ==
    \/ \E r \in HRequests, body \in Bodies : Arrive(r, body)
    \/ \E r \in HRequests, ok \in BOOLEAN : Query(r, ok)
    \/ \E r \in HRequests, ok \in BOOLEAN : Add(r, ok)
    \/ \E r \in HRequests, ok \in BOOLEAN : Update(r, ok)
    \/ \E r \in HRequests, ok \in BOOLEAN : LogAnalytics(r, ok)

SpecLeads == InitLeads /\ [][NextLeads]_vars

\* the same handlers when no two requests overlap
ArriveAlone(r, body) ==
    /\ \A q \in HRequests : hPc[q] \in {"idle", "done"}
    /\ Arrive(r, body)

NextLeadsSequential ==
    \/ \E r \in HRequests, body \in Bodies : ArriveAlone(r, body)
    \/ \E r \in HRequests, ok \in BOOLEAN : Query(r, ok)
    \/ \E r \in HRequests, ok \in BOOLEAN : Add(r, ok)
    \/ \E r \in HRequests, ok \in BOOLEAN : Update(r, ok)
    \/ \E r \in HRequests, ok \in BOOLEAN : LogAnalytics(r, ok)

SpecLeadsSequential == InitLeads /\ [][NextLeadsSequential]_vars


(***************************************************************************)
(* Claims about the email-capture function.                                *)
(***************************************************************************)
\* the requests answered with success for the normalized email e
Captured(e) ==
    {r \in HRequests : hPc[r] = "done" /\ hResp[r].success
                        /\ sanitizeEmail(hReq[r].email) = e}

\* C12: with no concurrent requests, the first two successful captures of one
\* normalized email are answered 201 with isNew = true and then 200 with
\* isNew = false and the same leadId, and the document's subscriptionCount is
\* 1 after the first and 2 after the second.
C12_SequentialDedup ==
    \A p, q \in HRequests :
        (/\ p < q
         /\ p \in Captured(sanitizeEmail(hReq[p].email))
         /\ q \in Captured(sanitizeEmail(hReq[p].email))
         /\ \A r \in Captured(sanitizeEmail(hReq[p].email)) : r = p \/ r >= q)
        => /\ hResp[p].status = 201 /\ hResp[p].isNew /\ hResp[p].count = 1
           /\ hResp[q].status = 200 /\ ~hResp[q].isNew
           /\ hResp[q].leadId = hResp[p].leadId
           /\ hResp[q].count = hResp[p].count + 1
           /\ hResp[q].count = 2

\* C12 witness: two captures of one address, written in different case, were
\* answered 201 and then 200
C12_Witness ==
    /\ hReq[1].email = EmailUpper /\ hReq[2].email = EmailLower
    /\ hPc[1] = "done" /\ hPc[2] = "done"
    /\ hResp[1].status = 201 /\ hResp[2].status = 200
    /\ Len(leads) = 1 /\ leads[1].subscriptionCount = 2

\* C13: the email_leads collection holds at most one document per normalized
\* email address.
C13_OneLeadPerEmail ==
    \A i, j \in 1..Len(leads) : leads[i].email = leads[j].email => i = j

\* the claim's requests: a body without email or otherwise outside the schema
C15_OutsideSchema(body) ==
    \/ body.email = NoEmail
    \/ FirstIndexOf(body.email, At) = 0
    \/ Cardinality(body.metadata) > MaxMetadataKeys
\* ... or whose address, lowercased, has a domain of the blocklist
C15_Blocklisted(body) ==
    /\ FirstIndexOf(body.email, At) > 0
    /\ ToLowerCase(SubSeq(body.email, FirstIndexOf(body.email, At) + 1, Len(body.email)))
          \in disposableDomains
C15_Rejected(r) == C15_OutsideSchema(hReq[r]) \/ C15_Blocklisted(hReq[r])

\* C15, the answer
C15_Answer ==
    \A r \in HRequests :
        (hPc[r] = "done" /\ C15_Rejected(r)) =>
            (hResp[r].status = 400 /\ ~hResp[r].success)
\* C15, the store: no step of such a request writes email_leads
C15_Step ==
    \A r \in HRequests :
        (/\ hPc'[r] # hPc[r]
         /\ C15_OutsideSchema(hReq'[r]) \/ C15_Blocklisted(hReq'[r]))
            => (leads' = leads /\ hPc'[r] \in {"log", "done"})

\* C15: a request whose body lacks email or violates the schema, or whose
\* normalized email's domain is blocklisted, is answered 400 with
\* success = false and leaves the lead store unchanged.
C15_InvalidRejected == []C15_Answer /\ [][C15_Step]_vars

\* C15 witness: a request without email and a request from a blocklisted
\* domain, written in upper case, were answered 400
C15_Witness ==
    \E p, q \in HRequests :
        /\ hPc[p] = "done" /\ hReq[p].email = NoEmail /\ hResp[p].status = 400
        /\ hPc[q] = "done" /\ hReq[q].email = EmailBlocked /\ hResp[q].status = 400
        /\ leads = <<>>

\* the event name that records an answer of the given status
C16_EventOf(r) ==
    CASE hResp[r].status = 201 -> {"email_capture_success"}
      [] hResp[r].status = 200 -> {"email_capture_duplicate"}
      [] hResp[r].status = 500 -> {"email_capture_error"}
      [] hResp[r].status = 400 -> {"email_capture_validation_error",
                                   "email_capture_blocked_domain"}
      [] OTHER -> {}

\* C16: a request that has been answered has attempted exactly one analytics
\* write, the one of its outcome, and attempted it before answering.
C16_OneEventPerRequest ==
    \A r \in HRequests :
        /\ hResp[r] # NoResponse =>
              (Len(hLog[r]) = 1 /\ hLog[r][1].event \in C16_EventOf(r))
        /\ hResp[r] = NoResponse => Len(hLog[r]) = 0

\* C16 witness: answers of all four statuses, each with its one event
C16_Witness ==
    \E p, q \in HRequests :
        /\ hResp[p].status = 500 /\ hLog[p] = <<[event |-> "email_capture_error", ok |-> TRUE]>>
        /\ hResp[q].status = 400
        /\ hLog[q] = <<[event |-> "email_capture_blocked_domain", ok |-> FALSE]>>

\* C17, as an action: the step in which logAnalyticsEvent settles answers with
\* the outcome the handler had reached and writes no lead, whether the write
\* was stored or failed
C17_Step ==
    \A r \in HRequests :
        (hPc[r] = "log" /\ hLog'[r] # hLog[r]) =>
            /\ hResp'[r] = Response(hOut[r])
            /\ hPc'[r] = "done"
            /\ hOut'[r] = hOut[r]
            /\ leads' = leads

\* C17: the status, success / isNew / leadId of the answer and the lead store
\* are the same whether logAnalyticsEvent succeeds or throws.
C17_AnalyticsFailureIsSilent == [][C17_Step]_vars

\* C17 witness: captures answered 201 and 200 although their analytics writes
\* failed
C17_Witness ==
    \E p, q \in HRequests :
        /\ hResp[p].status = 201 /\ hLog[p][1].ok = FALSE
        /\ hResp[q].status = 200 /\ hLog[q][1].ok = FALSE

\* C18: every document of email_leads has at most 10 metadata keys.
C18_MetadataAtMostTen ==
    \A i \in 1..Len(leads) : Cardinality(leads[i].metadata) <= MaxMetadataKeys


(***************************************************************************)
(* The email-capture function: rateLimiterMiddleware.  RateLimiterMemory   *)
(* keeps, per key, the points consumed and the end of a window that begins *)
(* with the key's first consume and lasts `duration` seconds; consume      *)
(* rejects once the points consumed exceed `points`.                       *)
(***************************************************************************)
\* rateLimiter: points
Points == 10
\* rateLimiter: duration, in seconds
Duration == 60
WindowMs == Duration * 1000
\* bound: requests of one client in one window
MaxConsumed == 12
\* the instants of a window at which the model looks: ms before its end
Instants == {0, 250, 500, 1250, 1500, 30000}

rateOthers == <<stratVars, cacheVars, fetchVars, actVars, formVars, instVars, apiVars, appVars, moreVars>>

\* Math.round(x / 1000) for a non-negative integer x
RoundSeconds(ms) == (ms + 500) \div 1000

\* a Retry-After without the `|| 1`
RetryAfterRounded(msBeforeNext) ==
    RoundSeconds(IF msBeforeNext = 0 THEN 1000 ELSE msBeforeNext)
\* Math.round((rejRes.msBeforeNext || 1000) / 1000) || 1
RetryAfter(msBeforeNext) ==
    LET seconds == RoundSeconds(IF msBeforeNext = 0 THEN 1000 ELSE msBeforeNext) IN
    IF seconds = 0 THEN 1 ELSE seconds

\* time passes until client c's window has t ms left
Advance(c, t) ==
    /\ t < rlLeft[c]
    /\ rlLeft' = [x \in Clients |->
                    IF rlLeft[x] > rlLeft[c] - t THEN rlLeft[x] - (rlLeft[c] - t) ELSE 0]
    /\ UNCHANGED <<rlConsumed, rlPassed, rlResp, rateOthers>>

\* a request of client c reaches rateLimiterMiddleware: consume, then next()
\* or the 429 answer
RateLimited(c) ==
    /\ rlLeft[c] > 0 => rlConsumed[c] < MaxConsumed
    /\ LET fresh == rlLeft[c] = 0
           consumed == IF fresh THEN 1 ELSE rlConsumed[c] + 1
           msBeforeNext == IF fresh THEN WindowMs ELSE rlLeft[c]
       IN /\ rlConsumed' = [rlConsumed EXCEPT ![c] = consumed]
          /\ rlLeft' = [rlLeft EXCEPT ![c] = msBeforeNext]
          /\ IF consumed > Points
             THEN /\ rlResp' = [client |-> c, status |-> 429,
                                retryAfter |-> RetryAfter(msBeforeNext)]
                  /\ rlPassed' = [rlPassed EXCEPT ![c] = IF fresh THEN 0 ELSE @]
             ELSE /\ rlResp' = [client |-> c, status |-> 0, retryAfter |-> 0]
                  /\ rlPassed' = [rlPassed EXCEPT ![c] = IF fresh THEN 1 ELSE @ + 1]
    /\ UNCHANGED rateOthers

InitRate ==
    /\ RateIdle
    /\ cacheOrder = <<>>
    /\ cacheData = [n \in StoreNames |-> EmptyStore]
    /\ StratIdle
    /\ FetchIdle
    /\ ActIdle
    /\ FormIdle
    /\ InstIdle
    /\ ApiIdle
    /\ AppIdle
    /\ MoreIdle

NextRate ==
    \/ \E c \in Clients, t \in Instants : Advance(c, t)
    \/ \E c \in Clients : RateLimited(c)

SpecRate == InitRate /\ [][NextRate]_vars

\* C14, the requests of a window: the first 10 reached the handler, no other
C14_Window ==
    \A c \in Clients :
        rlPassed[c] = IF rlConsumed[c] <= 10 THEN rlConsumed[c] ELSE 10

\* C14, the request: the 11th request of a window and every later one is
\* answered 429 with a Retry-After of at least 1, and the handler does not
\* run; an earlier one is passed on
C14_Request ==
    \A c \in Clients :
        rlConsumed'[c] # rlConsumed[c] =>
            IF rlConsumed'[c] > 10
            THEN /\ rlResp'.client = c /\ rlResp'.status = 429
                 /\ rlResp'.retryAfter \in 1..60
                 /\ rlPassed'[c] = rlPassed[c]
                 /\ leads' = leads /\ hPc' = hPc
            ELSE /\ rlResp'.client = c /\ rlResp'.status = 0
                 /\ leads' = leads

\* C14: of the requests of one client address in one 60-second window the
\* first 10 reach the handler, and every further one is answered 429 with an
\* integer Retry-After >= 1 without the handler running or the lead store
\* changing.
C14_RateLimit == []C14_Window /\ [][C14_Request]_vars

\* C14 witness: an 11th request was answered 429 in the last 250 ms of its
\* window (Retry-After 1) while the other client's requests still pass
C14_Witness ==
    \E c, d \in Clients :
        /\ c # d
        /\ rlResp = [client |-> c, status |-> 429, retryAfter |-> 1]
        /\ rlLeft[c] = 250 /\ rlConsumed[c] = 11 /\ rlPassed[c] = 10
        /\ rlLeft[d] > 0 /\ rlPassed[d] \in 1..9


(***************************************************************************)
(* Claim about the form lifecycle.                                         *)
(***************************************************************************)
\* the form is idle: not loading, the controller not submitting, the submit
\* button enabled
C19_Idle(form) ==
    /\ ~loadingState[form]
    /\ ~isSubmitting
    /\ ~btnDisabled[form]

\* C19: a form that has entered the submitting state (loadingState = true)
\* returns to idle once its request resolves or rejects, on the success and on
\* the error path: loadingState and the controller's isSubmitting are false
\* again and the submit button is enabled.
C19_SubmittingReturnsToIdle ==
    \A form \in Forms : loadingState[form] ~> C19_Idle(form)

\* C19 witness: a form is idle again after a submission that succeeded (its
\* resetForm timeout is still pending)
C19_Witness ==
    \E form \in Forms :
        /\ C19_Idle(form)
        /\ resetTimers[form] > 0
        /\ InFlight(form) = {}


(***************************************************************************)
(* The application controller, HighLeverageApp: init() awaits              *)
(* initializePerformance, initializeAnimations and initializeForms, runs   *)
(* setupEventListeners, awaits initializeServiceWorker, sets isInitialized *)
(* and dispatches app:ready.  An error that reaches init's own catch goes  *)
(* to handleError, which dispatches app:error.                             *)
(***************************************************************************)
\* what initialize<Module> can meet: the class is not on window, its
\* constructor throws, its init() rejects, or its init() resolves
ModuleOutcomes == {"absent", "constructorThrows", "initThrows", "ok"}
\* navigator.serviceWorker is missing, or register() resolves or rejects
RegistrationOutcomes == {"unsupported", "registered", "failed"}

appOthers == <<stratVars, cacheVars, fetchVars, actVars, formVars, instVars,
               apiVars, rateVars, moreVars>>

\* the body of initialize<Module> for module m, after which init() is at next
InitializeModule(m, outcome, next) ==
    /\ appOutcome' = [appOutcome EXCEPT ![m] = outcome]
    /\ appInstance' = [appInstance EXCEPT ![m] = outcome \in {"initThrows", "ok"}]
    /\ modules' = IF outcome = "ok" THEN modules \cup {m} ELSE modules
    /\ appPc' = next
    /\ UNCHANGED <<isInitialized, appEvents, appListeners, swRegistration>>

\* init() is called: the isInitialized guard, then the first await
init ==
    /\ appPc = "constructed"
    /\ ~isInitialized
    /\ appPc' = "performance"
    /\ UNCHANGED <<modules, appInstance, appOutcome, isInitialized, appEvents,
                   appListeners, swRegistration, appOthers>>

initializePerformance(outcome) ==
    /\ appPc = "performance"
    /\ InitializeModule("performance", outcome, "animations")
    /\ UNCHANGED appOthers

initializeAnimations(outcome) ==
    /\ appPc = "animations"
    /\ InitializeModule("animations", outcome, "forms")
    /\ UNCHANGED appOthers

\* an initializeForms without its try/catch: a throw reaches init's catch,
\* which calls handleError
initializeFormsUncaught(outcome) ==
    /\ appPc = "forms"
    /\ IF outcome \in {"constructorThrows", "initThrows"}
       THEN /\ appOutcome' = [appOutcome EXCEPT !["forms"] = outcome]
            /\ appInstance' = [appInstance EXCEPT !["forms"] = outcome = "initThrows"]
            /\ appPc' = "aborted"
            /\ appEvents' = appEvents \cup {"app:error"}
            /\ UNCHANGED <<modules, isInitialized, appListeners, swRegistration>>
       ELSE InitializeModule("forms", outcome, "listeners")
    /\ UNCHANGED appOthers

initializeForms(outcome) ==
    /\ appPc = "forms"
    /\ InitializeModule("forms", outcome, "listeners")
    /\ UNCHANGED appOthers

\* setupEventListeners, then the await of initializeServiceWorker
setupEventListeners ==
    /\ appPc = "listeners"
    /\ appListeners' = TRUE
    /\ appPc' = "serviceWorker"
    /\ UNCHANGED <<modules, appInstance, appOutcome, isInitialized, appEvents,
                   swRegistration, appOthers>>

\* initializeServiceWorker settles; init() then marks the controller
\* initialized and dispatches app:ready
initializeServiceWorker(outcome) ==
    /\ appPc = "serviceWorker"
    /\ swRegistration' = outcome
    /\ isInitialized' = TRUE
    /\ appEvents' = appEvents \cup {"app:ready"}
    /\ appPc' = "done"
    /\ UNCHANGED <<modules, appInstance, appOutcome, appListeners, appOthers>>

InitApp ==
    /\ AppIdle
    /\ cacheOrder = <<>>
    /\ cacheData = [n \in StoreNames |-> EmptyStore]
    /\ StratIdle
    /\ FetchIdle
    /\ ActIdle
    /\ FormIdle
    /\ InstIdle
    /\ ApiIdle
    /\ RateIdle
    /\ MoreIdle

NextApp ==
    \/ init
    \/ \E outcome \in ModuleOutcomes : initializePerformance(outcome)
    \/ \E outcome \in ModuleOutcomes : initializeAnimations(outcome)
    \/ \E outcome \in ModuleOutcomes : initializeForms(outcome)
    \/ setupEventListeners
    \/ \E outcome \in RegistrationOutcomes : initializeServiceWorker(outcome)

\* every awaited promise of init() settles
SpecApp == InitApp /\ [][NextApp]_vars /\ WF_vars(NextApp)

(***************************************************************************)
(* Claim about the application controller.                                 *)
(***************************************************************************)
\* a module whose constructor or init() threw
C20_Failed(m) == appOutcome[m] \in {"constructorThrows", "initThrows"}

\* init() has come to its end
C20_Completed ==
    /\ isInitialized
    /\ "app:ready" \in appEvents
    /\ appListeners
    /\ swRegistration # "none"
    /\ \A m \in ModuleNames : appOutcome[m] # "none"
    /\ \A m \in ModuleNames : C20_Failed(m) => m \notin modules
    /\ \A m \in ModuleNames : appOutcome[m] = "ok" => m \in modules

valOthers == <<oldVars, reVars, debVars, syncVars, perfVars, swrVars>>
\* bound: names in data-validators
MaxValidators == 2
\* the names a data-validators attribute is made of: the registered ones and
\* two that setupValidators does not register
ValidatorNames == KnownValidators \cup {"zip", "custom"}
ValidatorLists == UNION {[1..n -> ValidatorNames] : n \in 0..MaxValidators}
\* what the element holds
FieldValues ==
    {<<>>, <<" ">>, <<"x">>, <<" ","a","b"," ">>, <<"a","@","b",".","c">>,
     <<"1","2">>}

\* validateField(fieldConfig)
validateField ==
    /\ vfPc = "idle"
    /\ LET i == FirstFailing(vfValidators, vfValue) IN
       /\ vfIsValid' = (i = 0)
       /\ vfMessage' = IF i = 0 THEN "" ELSE ValidatorMessage(vfValidators[i])
    /\ vfPc' = "validated"
    /\ UNCHANGED <<vfValidators, vfValue, valOthers>>

\* the element's value changes
setValue(v) ==
    /\ vfPc = "validated"
    /\ v # vfValue
    /\ vfValue' = v
    /\ vfPc' = "idle"
    /\ UNCHANGED <<vfValidators, vfIsValid, vfMessage, valOthers>>

InitValidate ==
    /\ vfValidators \in ValidatorLists
    /\ vfValue \in FieldValues
    /\ vfIsValid = FALSE
    /\ vfMessage = ""
    /\ vfPc = "idle"
    /\ ValOthersIdle

NextValidate ==
    \/ validateField
    \/ \E v \in FieldValues : setValue(v)

SpecValidate == InitValidate /\ [][NextValidate]_vars

\* the assigned validators that are registered and reject the trimmed value
C21_Rejecting ==
    {i \in 1..Len(vfValidators) :
        /\ vfValidators[i] \in {"email", "required", "name", "phone"}
        /\ ~ValidatorValidate(vfValidators[i], Trim(vfValue))}

\* C21: after validateField, the field is valid exactly when every assigned
\* validator that is registered accepts the trimmed value; the message shown
\* is that of the first registered validator that rejects it; and a field
\* whose assigned names are all unregistered is valid whatever its value.
C21_UnknownValidatorSkipped ==
    vfPc = "validated" =>
        /\ vfIsValid <=> C21_Rejecting = {}
        /\ C21_Rejecting # {} =>
              \E i \in C21_Rejecting :
                  /\ \A j \in C21_Rejecting : i <= j
                  /\ vfMessage = ValidatorMessage(vfValidators[i])
        /\ C21_Rejecting = {} => vfMessage = ""
        /\ (\A i \in 1..Len(vfValidators) : vfValidators[i] \in {"zip", "custom"})
              => vfIsValid

\* C21 witness: an unregistered name ahead of a registered validator that
\* rejects: the field is invalid with the registered validator's message
C21_Witness ==
    /\ vfPc = "validated"
    /\ vfValidators = <<"zip", "email">>
    /\ vfValue = <<"x">>
    /\ ~vfIsValid
    /\ vfMessage = "Please enter a valid email address"


(***************************************************************************)
(* Claim about the order of activation.                                    *)
(***************************************************************************)
\* C22: the open pages are claimed only after every stale store is deleted:
\* while a store with a name other than the two current ones exists, no page
\* has been claimed.
C22_ClaimAfterCleanup ==
    claimed = "claimed" =>
        \A name \in Names(cacheOrder) : name \in {CACHE_NAME, RUNTIME_CACHE}


(***************************************************************************)
(* init() invoked more than once on one coordinator.  Each call runs the   *)
(* same body; the calls interleave at their awaits.                        *)
(***************************************************************************)
reOthers == <<oldVars, valVars, debVars, syncVars, perfVars, swrVars>>
\* the same without the coordinator's own fields
oldButApp == <<stratVars, cacheVars, fetchVars, actVars, formVars, instVars,
               apiVars, rateVars>>
reAppOthers == <<oldButApp, valVars, debVars, syncVars, perfVars, swrVars>>

\* call c of init(): the isInitialized guard, then up to the first await
initCall(c) ==
    /\ initPc[c] = "idle"
    /\ IF c = 1 THEN TRUE ELSE initPc[c - 1] # "idle"
    /\ initPc' = [initPc EXCEPT ![c] = IF isInitialized THEN "returned" ELSE "performance"]
    /\ UNCHANGED <<constructed, registrations, reOthers>>

\* call c runs initialize<Module> for the module it stands at
initModule(c, m, outcome) ==
    /\ initPc[c] = m
    /\ constructed' = [constructed EXCEPT ![m] = IF outcome = "absent" THEN @ ELSE @ + 1]
    /\ appInstance' = [appInstance EXCEPT ![m] =
                          IF outcome \in {"initThrows", "ok"} THEN TRUE ELSE @]
    /\ modules' = IF outcome = "ok" THEN modules \cup {m} ELSE modules
    /\ initPc' = [initPc EXCEPT ![c] =
                     CASE m = "performance" -> "animations"
                       [] m = "animations" -> "forms"
                       [] OTHER -> "serviceWorker"]
    /\ UNCHANGED <<registrations, appPc, appOutcome, isInitialized, appEvents,
                   appListeners, swRegistration, reAppOthers>>

\* call c, after initializeForms: setupEventListeners, then
\* initializeServiceWorker, which calls register when the browser has service
\* workers
initRegister(c, outcome) ==
    /\ initPc[c] = "serviceWorker"
    /\ appListeners' = TRUE
    /\ registrations' = IF outcome = "unsupported" THEN registrations ELSE registrations + 1
    /\ swRegistration' = outcome
    /\ initPc' = [initPc EXCEPT ![c] = "registered"]
    /\ UNCHANGED <<constructed, appPc, modules, appInstance, appOutcome,
                   isInitialized, appEvents, reAppOthers>>

\* call c, after its last await: isInitialized = true, app:ready
initReady(c) ==
    /\ initPc[c] = "registered"
    /\ initPc' = [initPc EXCEPT ![c] = "done"]
    /\ isInitialized' = TRUE
    /\ appEvents' = appEvents \cup {"app:ready"}
    /\ UNCHANGED <<constructed, registrations, appPc, modules, appInstance,
                   appOutcome, appListeners, swRegistration, reAppOthers>>

InitReentrant ==
    /\ ReIdle
    /\ ReOthersIdle

NextReentrant ==
    \/ \E c \in Calls : initCall(c)
    \/ \E c \in Calls, m \in ModuleNames, outcome \in ModuleOutcomes : initModule(c, m, outcome)
    \/ \E c \in Calls, outcome \in RegistrationOutcomes : initRegister(c, outcome)
    \/ \E c \in Calls : initReady(c)

SpecReentrant == InitReentrant /\ [][NextReentrant]_vars

\* C23: however init() is invoked on one coordinator, each module is
\* constructed at most once and the service worker is registered at most once.
C23_InitializedOnce ==
    /\ \A m \in ModuleNames : constructed[m] <= 1
    /\ registrations <= 1


(***************************************************************************)
(* setupFieldValidation with time: every input event of a field clears the *)
(* field's validationTimeout and arms it again for debounceDelay ms.  A    *)
(* timeout fires when it is due, before anything later happens.            *)
(***************************************************************************)
\* this.config.debounceDelay
debounceDelay == 300
\* the time step of the model, in ms
DebounceStep == 150

debOthers == <<oldVars, valVars, reVars, syncVars, perfVars, swrVars>>

\* a debouncedValidation without clearTimeout that arms no second timeout
\* while one is pending
DebouncedInputKeepsTimer(f, v) ==
    /\ \A g \in DebounceFields : dbTimer[g] # 0
    /\ dbValue' = [dbValue EXCEPT ![f] = v]
    /\ dbTimer' = [dbTimer EXCEPT ![f] = IF @ = -1 THEN debounceDelay ELSE @]
    /\ dbSince' = [dbSince EXCEPT ![f] = 0]
    /\ dbRuns' = [dbRuns EXCEPT ![f] = 0]
    /\ UNCHANGED <<dbIsValid, debOthers>>

\* an input event of field f, the user having made its value v:
\* debouncedValidation
DebouncedInput(f, v) ==
    /\ \A g \in DebounceFields : dbTimer[g] # 0
    /\ dbValue' = [dbValue EXCEPT ![f] = v]
    /\ dbTimer' = [dbTimer EXCEPT ![f] = debounceDelay]
    /\ dbSince' = [dbSince EXCEPT ![f] = 0]
    /\ dbRuns' = [dbRuns EXCEPT ![f] = 0]
    /\ UNCHANGED <<dbIsValid, debOthers>>

\* the value of field f is set by script (form.reset()): no input event
ScriptSetsValue(f, v) ==
    /\ \A g \in DebounceFields : dbTimer[g] # 0
    /\ v # dbValue[f]
    /\ dbValue' = [dbValue EXCEPT ![f] = v]
    /\ UNCHANGED <<dbTimer, dbIsValid, dbSince, dbRuns, debOthers>>

\* d ms pass, no armed timeout being due earlier
TimePasses(d) ==
    /\ d > 0
    /\ \A f \in DebounceFields : dbTimer[f] = -1 \/ dbTimer[f] >= d
    /\ dbTimer' = [f \in DebounceFields |-> IF dbTimer[f] = -1 THEN -1 ELSE dbTimer[f] - d]
    /\ dbSince' = [f \in DebounceFields |->
                      IF dbSince[f] = -1 THEN -1
                      ELSE IF dbSince[f] + d > debounceDelay THEN debounceDelay + 1
                      ELSE dbSince[f] + d]
    /\ UNCHANGED <<dbValue, dbIsValid, dbRuns, debOthers>>

\* the validationTimeout of field f fires: validateField on the element's
\* value
ValidationTimeout(f) ==
    /\ dbTimer[f] = 0
    /\ dbTimer' = [dbTimer EXCEPT ![f] = -1]
    /\ dbIsValid' = [dbIsValid EXCEPT ![f] = FieldIsValid(f, dbValue[f])]
    /\ dbRuns' = [dbRuns EXCEPT ![f] = @ + 1]
    /\ UNCHANGED <<dbValue, dbSince, debOthers>>

InitDebounce ==
    /\ DebounceIdle
    /\ DebounceOthersIdle

NextDebounce ==
    \/ \E f \in DebounceFields : \E v \in InputsOf(f) : DebouncedInput(f, v)
    \/ \E f \in DebounceFields : \E v \in InputsOf(f) : ScriptSetsValue(f, v)
    \/ \E d \in {DebounceStep} \cup {dbTimer[f] : f \in DebounceFields} : TimePasses(d)
    \/ \E f \in DebounceFields : ValidationTimeout(f)

SpecDebounce == InitDebounce /\ [][NextDebounce]_vars

\* C24, a debounced validation of f runs: it is 300 ms after f's last input
\* event, it is the first since that event, and it validates the value the
\* field has now
C24_Run(f) ==
    dbRuns'[f] > dbRuns[f] =>
        /\ dbSince[f] = 300
        /\ dbRuns'[f] = 1
        /\ dbIsValid'[f] = (FirstFailing(AssignedValidators(f), dbValue[f]) = 0)

\* C24, the count: no validation has run less than 300 ms after the last
\* input event, and one has run once more than 300 ms have passed
C24_Count(f) ==
    /\ (dbSince[f] >= 0 /\ dbSince[f] < 300) => dbRuns[f] = 0
    /\ dbSince[f] > 300 => dbRuns[f] = 1

\* C24: in a burst of input events of a field, each less than 300 ms after
\* the one before, no debounced validation runs; exactly one runs, 300 ms
\* after the last event of the burst, on the value the field has then.
C24_Debounce ==
    /\ [](\A f \in DebounceFields : C24_Count(f))
    /\ [][\A f \in DebounceFields : C24_Run(f)]_vars

\* C24 witness: 150 ms into a burst on the email field, whose first value was
\* accepted; the phone field's validation has run on a value it rejects
C24_Witness ==
    /\ dbSince["email"] = 150 /\ dbRuns["email"] = 0 /\ dbTimer["email"] = 150
    /\ dbValue["email"] = <<"x">> /\ dbIsValid["email"]
    /\ dbRuns["phone"] = 1 /\ dbValue["phone"] = <<"x">> /\ ~dbIsValid["phone"]


(***************************************************************************)
(* Background sync: syncFormSubmissions and syncAnalyticsData, which have  *)
(* the same body.  The IndexedDB helpers are placeholders in the           *)
(* repository; the model gives them the store they stand for: the getter   *)
(* returns the stored items, the remover deletes the item of the given id. *)
(***************************************************************************)
\* bound: items stored for one tag
MaxItems == 2
ItemIds == 1..MaxItems

syncOthers == <<oldVars, valVars, reVars, debVars, perfVars, swrVars>>

\* the ids of a set in ascending order, as the getter returns them
RECURSIVE Ascending(_)
Ascending(S) ==
    IF S = {} THEN <<>>
    ELSE LET x == CHOOSE y \in S : \A z \in S : y <= z IN <<x>> \o Ascending(S \ {x})

\* getStoredSubmissions / getStoredAnalytics
getStored(t) == Ascending(syncQueue[t])
\* removeStoredSubmission / removeStoredAnalytics
removeStored(t, id) == [syncQueue EXCEPT ![t] = @ \ {id}]

\* what a POST of the flush can meet
PostOutcomes == {"ok", "not_ok", "rejected"}

\* the for loop goes to its next item, or the function returns
NextItem(t) ==
    /\ syncIndex' = [syncIndex EXCEPT ![t] = @ + 1]
    /\ syncPc' = [syncPc EXCEPT ![t] =
                     IF syncIndex[t] + 1 > Len(syncItems[t]) THEN "done" ELSE "fetch"]

\* a sync event with tag t: the sync function is called and suspends at the
\* getter
SyncEvent(t) ==
    /\ syncPc[t] \in {"idle", "done"}
    /\ syncPc' = [syncPc EXCEPT ![t] = "get"]
    /\ syncItems' = [syncItems EXCEPT ![t] = <<>>]
    /\ syncIndex' = [syncIndex EXCEPT ![t] = 0]
    /\ syncTried' = [syncTried EXCEPT ![t] = {}]
    /\ UNCHANGED <<syncQueue, syncAcked, syncOthers>>

\* the getter resolves: the loop starts with the first item's fetch
SyncGot(t) ==
    /\ syncPc[t] = "get"
    /\ syncItems' = [syncItems EXCEPT ![t] = getStored(t)]
    /\ syncIndex' = [syncIndex EXCEPT ![t] = 1]
    /\ syncPc' = [syncPc EXCEPT ![t] = IF getStored(t) = <<>> THEN "done" ELSE "fetch"]
    /\ UNCHANGED <<syncQueue, syncAcked, syncTried, syncOthers>>

\* a flush that gives up at the first POST that fails
SyncPostSettlesOrGivesUp(t, outcome) ==
    /\ syncPc[t] = "fetch"
    /\ syncTried' = [syncTried EXCEPT ![t] = @ \cup {syncItems[t][syncIndex[t]]}]
    /\ IF outcome = "ok"
       THEN /\ syncAcked' = [syncAcked EXCEPT ![t] = @ \cup {syncItems[t][syncIndex[t]]}]
            /\ syncPc' = [syncPc EXCEPT ![t] = "remove"]
            /\ UNCHANGED syncIndex
       ELSE /\ syncPc' = [syncPc EXCEPT ![t] = "done"]
            /\ UNCHANGED <<syncAcked, syncIndex>>
    /\ UNCHANGED <<syncQueue, syncItems, syncOthers>>

\* the POST of the current item settles: a 2xx response goes on to the
\* remover; another response falls through the if, a rejection is caught, and
\* the loop continues
SyncPostSettles(t, outcome) ==
    /\ syncPc[t] = "fetch"
    /\ syncTried' = [syncTried EXCEPT ![t] = @ \cup {syncItems[t][syncIndex[t]]}]
    /\ IF outcome = "ok"
       THEN /\ syncAcked' = [syncAcked EXCEPT ![t] = @ \cup {syncItems[t][syncIndex[t]]}]
            /\ syncPc' = [syncPc EXCEPT ![t] = "remove"]
            /\ UNCHANGED syncIndex
       ELSE /\ NextItem(t)
            /\ UNCHANGED syncAcked
    /\ UNCHANGED <<syncQueue, syncItems, syncOthers>>

\* the remover resolves; the loop continues
SyncRemoved(t) ==
    /\ syncPc[t] = "remove"
    /\ syncQueue' = removeStored(t, syncItems[t][syncIndex[t]])
    /\ NextItem(t)
    /\ UNCHANGED <<syncItems, syncAcked, syncTried, syncOthers>>

\* the page stores an item while no flush of the tag is running
ItemStored(t, id) ==
    /\ syncPc[t] \in {"idle", "done"}
    /\ id \notin syncQueue[t]
    /\ id \notin syncAcked[t]
    /\ syncQueue' = [syncQueue EXCEPT ![t] = @ \cup {id}]
    /\ UNCHANGED <<syncPc, syncItems, syncIndex, syncAcked, syncTried, syncOthers>>

InitSync ==
    /\ SyncIdle
    /\ SyncOthersIdle

NextSync ==
    \/ \E t \in SyncTags : SyncEvent(t)
    \/ \E t \in SyncTags : SyncGot(t)
    \/ \E t \in SyncTags, outcome \in PostOutcomes : SyncPostSettles(t, outcome)
    \/ \E t \in SyncTags : SyncRemoved(t)
    \/ \E t \in SyncTags, id \in ItemIds : ItemStored(t, id)

SpecSync == InitSync /\ [][NextSync]_vars

\* C25, removal: an item that leaves the queue had its POST acknowledged
C25_Step ==
    \A t \in SyncTags :
        \A id \in syncQueue[t] \ syncQueue'[t] : id \in syncAcked[t]

\* C25, the flush: a finished flush has posted every item it got from the
\* store, and an item of it that is not acknowledged is still queued
C25_Flush ==
    \A t \in SyncTags :
        syncPc[t] = "done" =>
            \A i \in 1..Len(syncItems[t]) :
                /\ syncItems[t][i] \in syncTried[t]
                /\ syncItems[t][i] \notin syncAcked[t] => syncItems[t][i] \in syncQueue[t]

C26_FormsIndependent ==
    (ev.kind = "submit" /\ CurrentlyValid(ev.form)) => InFlight(ev.form) # {}

\* C27: the resetForm timeout armed by a successful submission never fires
\* while a later submission of the same form is in flight.
C27_ResetOnlyCompletedSubmission ==
    [][\A form \in Forms :
          resetTimers'[form] < resetTimers[form] => InFlight(form) = {}]_vars

\* C28: after a submit attempt rejected by validation, every field of the
\* form that fails its validators, the one that received the focus included,
\* has isValid = false and shows a non-empty error text.
C28_InvalidFieldsShowErrors ==
    (ev.kind = "submit" /\ ev.outcome = "invalid") =>
        \A f \in FieldsOf(ev.form) :
            ~FieldIsValid(f, value[f]) => (~isValid[f] /\ errorText[f] # "")


(***************************************************************************)
(* Performance monitor: the event queue of PerformanceMonitor.  trackEvent *)
(* appends to eventQueue and sends when the queue is full; sendEvents      *)
(* takes the whole queue as one batch, awaits the POST of it and puts the  *)
(* batch back when the POST fails.  Tracking is enabled, as the            *)
(* constructor leaves it.  Events are numbered in the order trackEvent got *)
(* them.                                                                   *)
(***************************************************************************)
\* config.batchSize
batchSize == 10
\* bound: events given to trackEvent
MaxTracked == 10

perfOthers == <<oldVars, valVars, reVars, debVars, syncVars, swrVars>>

\* the events of a list
EventsOf(list) == {list[i] : i \in 1..Len(list)}

\* how the POST of a batch can end: a 2xx whose body parses, a 2xx whose body
\* does not parse (sendToEndpoint's response.json() rejects), or no 2xx at
\* all (offline, network error, another status)
SendOutcomes == {"ok", "unparsable", "rejected"}

\* the body of sendEvents on queue q up to its await: the early return is the
\* guard of the callers; the batch is a copy of the queue, the queue is
\* emptied
TakeBatch(q) ==
    /\ sendCalls < MaxSends
    /\ sendCalls' = sendCalls + 1
    /\ batchEvents' = [batchEvents EXCEPT ![sendCalls + 1] = q]
    /\ sendState' = [sendState EXCEPT ![sendCalls + 1] = "sending"]
    /\ eventQueue' = <<>>

\* trackEvent(eventName, data)
trackEvent ==
    /\ tracked < MaxTracked
    /\ tracked' = tracked + 1
    /\ IF Len(eventQueue) + 1 >= batchSize
       THEN TakeBatch(Append(eventQueue, tracked + 1))
       ELSE /\ eventQueue' = Append(eventQueue, tracked + 1)
            /\ UNCHANGED <<batchEvents, sendState, sendCalls>>
    /\ UNCHANGED <<acknowledged, perfOthers>>

\* sendEvents() called by the reporting interval, by a visibility change or
\* by reportMetrics; with an empty queue it returns at once
sendEvents ==
    /\ Len(eventQueue) # 0
    /\ TakeBatch(eventQueue)
    /\ UNCHANGED <<acknowledged, tracked, perfOthers>>

\* a sendEvents whose catch block puts the batch behind the queue
SendSettlesRequeuesBehind(c, outcome) ==
    /\ sendState[c] = "sending"
    /\ acknowledged' = IF outcome = "rejected" THEN acknowledged
                       ELSE acknowledged \cup EventsOf(batchEvents[c])
    /\ IF outcome = "ok"
       THEN /\ sendState' = [sendState EXCEPT ![c] = "sent"]
            /\ UNCHANGED eventQueue
       ELSE /\ sendState' = [sendState EXCEPT ![c] = "failed"]
            /\ eventQueue' = eventQueue \o batchEvents[c]
    /\ UNCHANGED <<batchEvents, tracked, sendCalls, perfOthers>>

\* the await of sendEvents call c settles: on a failure the catch block
\* unshifts the batch onto the queue
SendSettles(c, outcome) ==
    /\ sendState[c] = "sending"
    /\ acknowledged' = IF outcome = "rejected" THEN acknowledged
                       ELSE acknowledged \cup EventsOf(batchEvents[c])
    /\ IF outcome = "ok"
       THEN /\ sendState' = [sendState EXCEPT ![c] = "sent"]
            /\ UNCHANGED eventQueue
       ELSE /\ sendState' = [sendState EXCEPT ![c] = "failed"]
            /\ eventQueue' = batchEvents[c] \o eventQueue
    /\ UNCHANGED <<batchEvents, tracked, sendCalls, perfOthers>>

InitPerf == PerfIdle /\ PerfOthersIdle

NextPerf ==
    \/ trackEvent
    \/ sendEvents
    \/ \E c \in SendCalls, outcome \in SendOutcomes : SendSettles(c, outcome)

SpecPerf == InitPerf /\ [][NextPerf]_vars

\* the batches whose POST is awaited
Sending == {c \in SendCalls : sendState[c] = "sending"}

\* C30, no loss: every event given to trackEvent is in the queue, in a batch
\* being sent, or was acknowledged
C30_NoneLost ==
    \A e \in 1..tracked :
        \/ e \in EventsOf(eventQueue)
        \/ \E c \in Sending : e \in EventsOf(batchEvents[c])
        \/ e \in acknowledged

\* C30, the re-queue: when the send of a batch fails, the queue afterwards is
\* that batch in its order followed by the queue as it was, which holds the
\* events tracked during the send
C30_Requeue ==
    \A c \in SendCalls :
        (sendState[c] = "sending" /\ sendState'[c] = "failed") =>
            eventQueue' = batchEvents[c] \o eventQueue

\* C30: with tracking enabled no tracked event is lost by a failed send: each
\* is in eventQueue, in a batch being sent, or acknowledged; a batch whose
\* send fails goes back to the front of the queue in its order, ahead of the
\* events tracked during the send, also when sendEvents calls overlap.
C30_NoEventLost == []C30_NoneLost /\ [][C30_Requeue]_vars

\* C30 witness: two sendEvents calls overlapped and both failed, the second
\* first; the queue holds the first batch, the second batch and then an
\* event tracked during the sends
C30_Witness ==
    /\ batchEvents[1] = <<1, 2>>
    /\ batchEvents[2] = <<3>>
    /\ sendState[1] = "failed"
    /\ sendState[2] = "failed"
    /\ eventQueue = <<1, 2, 3, 4>>
    /\ acknowledged = {}


(***************************************************************************)
(* Stale-while-revalidate under concurrent requests for one URL.           *)
(***************************************************************************)
\* event a's revalidation fetch was issued before event b's
IssuedBefore(a, b) ==
    \E i \in 1..Len(swrIssued), j \in 1..Len(swrIssued) :
        i < j /\ swrIssued[i] = a /\ swrIssued[j] = b

\* event r's revalidation is over: its fetch has settled and so has the put
\* of a 2xx result
RevalidationOver(r) == bg[r] \in {"done", "failed"}

\* C29: once the revalidation fetches of two stale-while-revalidate events for
\* the same URL are over, and the later-issued one brought a 2xx response
\* that was stored, the runtime store's entry for the URL is that response:
\* the earlier-issued revalidation has not overwritten it.
C29_LatestRevalidationWins ==
    \A a \in Events, b \in Events :
        (/\ strat[a] = "StaleWhileRevalidate"
         /\ strat[b] = "StaleWhileRevalidate"
         /\ req[a].url = req[b].url
         /\ IssuedBefore(a, b)
         /\ RevalidationOver(a)
         /\ bg[b] = "done" /\ net[b].outcome = "response" /\ Ok(net[b].status))
            => RuntimeEntry(cacheData, b) = NetResponse(b, req[b].url, net[b].status)

=============================================================================
